---- MODULE Spec2Model ----
(***************************************************************************)
(* Instagram adapter core: RateLimiter (core/rate-limiter.ts),             *)
(* InstagramAuth (core/auth.ts) and InstagramClient (core/client.ts),      *)
(* with the tool methods that guard on the credential schemes and the      *)
(* server's call-tool handler (index.ts).                                  *)
(*                                                                         *)
(* Time is Date.now() in milliseconds.  JavaScript numbers that can        *)
(* become NaN (the bucket fields, through parseInt of a header) are        *)
(* records [nan, v]; optional values are sets with at most one element;    *)
(* strings that the code parses or tests for emptiness are sequences of    *)
(* one-character strings.                                                  *)
(***************************************************************************)
EXTENDS Integers, Sequences, FiniteSets, Bags, TLC

VARIABLES
    buckets,    \* RateLimiter.buckets: category -> RateLimitBucket
    enabled,    \* RateLimiter.enabled
    now,        \* Date.now(), ms
    tokens,     \* InstagramAuth.tokens
    config,     \* InstagramAuth.config (the fields the core reads)
    inflight,   \* dispatch calls suspended on their network request
    last,       \* the last operation that returned, with what it observed
    granted,    \* per category: consume() == true since the last resetBucket
    clean,      \* per category: no updateFromHeaders and no disabled consume so far
    resyncs,    \* updateFromHeaders calls so far
    devices,    \* the X-IG-Device-ID values that getPrivateApiHeaders gave, by session id
    pub,        \* the content-publishing tool call in progress: its frame
    issued,     \* per category: requests sent to the upstream since the last resetBucket
    contabo,    \* the Contabo server: its token cache and the contaboRequest calls running
    canva,      \* the Canva server: browser, page, the browsers launched, the calls running
    ssh         \* the VPS server: the executeSSH call running, its promise and its timer

vars ==
    <<buckets, enabled, now, tokens, config, inflight, last, granted, clean, resyncs,
      devices, pub, issued, contabo, canva, ssh>>

\* the state outside the Instagram core
ext == <<pub, issued, contabo, canva, ssh>>

limiterVars == <<buckets, enabled, granted, clean, resyncs>>
authVars == <<tokens, config, devices>>
coreVars ==
    <<buckets, enabled, now, tokens, config, inflight, last, granted, clean, resyncs,
      devices>>

----------------------------------------------------------------------------
(* Bounds of the model *)

\* the ceiling of the media-processing poll loops (maxAttempts: 30, 60, 20 in the source)
MaxAttempts == 2
\* the media of a carousel (2 to 10 in the source)
MaxItems == 2
\* contaboRequest calls running at once
MaxContabo == 2
\* tokens that the Contabo auth endpoint issues in one run
MaxTokens == 3
\* auth requests that the Contabo server sends in one run
MaxAuth == 4
\* Canva tool calls running at once
MaxCanva == 2
\* browsers that the Canva server launches in one run
MaxBrowsers == 2
\* executeSSH calls in one run
MaxCalls == 2
\* data events of one stream, and error events of one connection
MaxChunks == 2
MaxErrors == 2
\* the largest default limit of the model (read: 200 in the source) is scaled to this
MaxLimit == 2
\* the longest default window of the model, seconds (86400 in the source)
MaxWindow == 2
\* the clock runs from 0 to MaxNow seconds
MaxNow == 2
\* dispatch calls that may be suspended on the network at once
MaxInflight == 1
\* the same where the calls are concurrent calls on one category
MaxConcurrent == 3
\* requests that the concurrent calls send in one run
MaxIssued == 3
\* updateFromHeaders calls in one run
MaxResync == 1

----------------------------------------------------------------------------
(* JavaScript numbers and strings *)

Num(i) == [nan |-> FALSE, v |-> i]
NaN == [nan |-> TRUE, v |-> 0]

JsGe(a, b) == ~a.nan /\ ~b.nan /\ a.v >= b.v
JsGt(a, b) == ~a.nan /\ ~b.nan /\ a.v > b.v
JsLe(a, b) == ~a.nan /\ ~b.nan /\ a.v <= b.v
JsDec(a) == IF a.nan THEN NaN ELSE Num(a.v - 1)
JsTimes(a, k) == IF a.nan THEN NaN ELSE Num(a.v * k)

Min(a, b) == IF a <= b THEN a ELSE b
Max(a, b) == IF a >= b THEN a ELSE b

Digits == {"0", "1", "2", "3", "4", "5", "6", "7", "8", "9"}

DigitVal(ch) ==
    CASE ch = "0" -> 0 [] ch = "1" -> 1 [] ch = "2" -> 2 [] ch = "3" -> 3
      [] ch = "4" -> 4 [] ch = "5" -> 5 [] ch = "6" -> 6 [] ch = "7" -> 7
      [] ch = "8" -> 8 [] ch = "9" -> 9

RECURSIVE DigitsPrefix(_, _)
\* value of the longest prefix of digits of s, continuing from acc
DigitsPrefix(s, acc) ==
    IF s = <<>> \/ Head(s) \notin Digits THEN acc
    ELSE DigitsPrefix(Tail(s), acc * 10 + DigitVal(Head(s)))

RECURSIVE SkipSpaces(_)
SkipSpaces(s) == IF s # <<>> /\ Head(s) = " " THEN SkipSpaces(Tail(s)) ELSE s

\* parseInt(s, 10): leading blanks, an optional sign, then the longest run of digits;
\* NaN when there is no digit
parseInt(s) ==
    LET t == SkipSpaces(s)
        neg == t # <<>> /\ Head(t) = "-"
        u == IF t # <<>> /\ Head(t) \in {"-", "+"} THEN Tail(t) ELSE t
    IN  IF u = <<>> \/ Head(u) \notin Digits THEN NaN
        ELSE IF neg THEN Num(0 - DigitsPrefix(u, 0)) ELSE Num(DigitsPrefix(u, 0))

\* JavaScript truthiness of an optional string: undefined and "" are falsy
Truthy(opt) == opt # {} /\ (CHOOSE s \in opt : TRUE) # <<>>
The(opt) == CHOOSE s \in opt : TRUE

----------------------------------------------------------------------------
(* RateLimiter *)

RateLimitCategory ==
    {"read", "write", "content_publish", "stories", "messages", "follows", "likes"}

\* the source's limits, scaled so that 200 becomes MaxLimit (rounded up, never 0)
ScaleLimit(n) == (n * MaxLimit + 199) \div 200
\* the source's windows in hours, capped at MaxWindow, taken as seconds
ScaleWindow(s) == Min(s \div 3600, MaxWindow)

DEFAULT_LIMITS(category) ==
    CASE category = "read" -> [limit |-> ScaleLimit(200), window_seconds |-> ScaleWindow(3600)]
      [] category = "write" -> [limit |-> ScaleLimit(25), window_seconds |-> ScaleWindow(3600)]
      [] category = "content_publish" ->
            [limit |-> ScaleLimit(25), window_seconds |-> ScaleWindow(86400)]
      [] category = "stories" -> [limit |-> ScaleLimit(100), window_seconds |-> ScaleWindow(86400)]
      [] category = "messages" -> [limit |-> ScaleLimit(100), window_seconds |-> ScaleWindow(86400)]
      [] category = "follows" -> [limit |-> ScaleLimit(60), window_seconds |-> ScaleWindow(3600)]
      [] category = "likes" -> [limit |-> ScaleLimit(60), window_seconds |-> ScaleWindow(3600)]

\* initializeBuckets with the buckets created empty
initializeBuckets_empty(t) ==
    [category \in RateLimitCategory |->
        [limit |-> Num(DEFAULT_LIMITS(category).limit),
         remaining |-> Num(0),
         reset_at |-> Num(t + DEFAULT_LIMITS(category).window_seconds * 1000),
         window_seconds |-> DEFAULT_LIMITS(category).window_seconds]]

\* initializeBuckets at time t
initializeBuckets(t) ==
    [category \in RateLimitCategory |->
        [limit |-> Num(DEFAULT_LIMITS(category).limit),
         remaining |-> Num(DEFAULT_LIMITS(category).limit),
         reset_at |-> Num(t + DEFAULT_LIMITS(category).window_seconds * 1000),
         window_seconds |-> DEFAULT_LIMITS(category).window_seconds]]

\* resetBucket: the bucket after the reset
resetBucket(b, category, t) ==
    [b EXCEPT !.remaining = Num(DEFAULT_LIMITS(category).limit),
              !.reset_at = Num(t + DEFAULT_LIMITS(category).window_seconds * 1000)]

\* Date.now() >= bucket.reset_at
Expired(b, t) == JsGe(Num(t), b.reset_at)

\* canExecute with remaining >= 0 for remaining > 0
canExecute_atZero(b, category, en, t) ==
    IF ~en THEN [ret |-> TRUE, bucket |-> b, reset |-> FALSE]
    ELSE IF Expired(b, t)
         THEN [ret |-> TRUE, bucket |-> resetBucket(b, category, t), reset |-> TRUE]
         ELSE [ret |-> JsGe(b.remaining, Num(0)), bucket |-> b, reset |-> FALSE]

\* canExecute: [ret, bucket, reset]
canExecute(b, category, en, t) ==
    IF ~en THEN [ret |-> TRUE, bucket |-> b, reset |-> FALSE]
    ELSE IF Expired(b, t)
         THEN [ret |-> TRUE, bucket |-> resetBucket(b, category, t), reset |-> TRUE]
         ELSE [ret |-> JsGt(b.remaining, Num(0)), bucket |-> b, reset |-> FALSE]

\* consume with remaining < 0 for remaining <= 0
consume_belowZero(b, category, en, t) ==
    IF ~en THEN [ret |-> TRUE, bucket |-> b, reset |-> FALSE]
    ELSE LET rst == Expired(b, t)
             b1 == IF rst THEN resetBucket(b, category, t) ELSE b
         IN  IF JsGt(Num(0), b1.remaining)
             THEN [ret |-> FALSE, bucket |-> b1, reset |-> rst]
             ELSE [ret |-> TRUE, bucket |-> [b1 EXCEPT !.remaining = JsDec(@)], reset |-> rst]

\* consume that counts while the limiter is disabled as well
consume_disabledCounts(b, category, en, t) ==
    LET rst == Expired(b, t)
        b1 == IF rst THEN resetBucket(b, category, t) ELSE b
    IN  IF JsLe(b1.remaining, Num(0))
        THEN [ret |-> FALSE, bucket |-> b1, reset |-> rst]
        ELSE [ret |-> TRUE, bucket |-> [b1 EXCEPT !.remaining = JsDec(@)], reset |-> rst]

\* consume: [ret, bucket, reset]
consume(b, category, en, t) ==
    IF ~en THEN [ret |-> TRUE, bucket |-> b, reset |-> FALSE]
    ELSE LET rst == Expired(b, t)
             b1 == IF rst THEN resetBucket(b, category, t) ELSE b
         IN  IF JsLe(b1.remaining, Num(0))
             THEN [ret |-> FALSE, bucket |-> b1, reset |-> rst]
             ELSE [ret |-> TRUE, bucket |-> [b1 EXCEPT !.remaining = JsDec(@)], reset |-> rst]

\* updateFromHeaders that never raises remaining above the local value
updateFromHeaders_onlyLower(b, headers) ==
    [b EXCEPT
        !.remaining = IF Truthy(headers.remaining)
                         /\ JsLe(parseInt(The(headers.remaining)), @)
                      THEN parseInt(The(headers.remaining)) ELSE @,
        !.reset_at = IF Truthy(headers.reset)
                     THEN JsTimes(parseInt(The(headers.reset)), 1000) ELSE @,
        !.limit = IF Truthy(headers.limit) THEN parseInt(The(headers.limit)) ELSE @]

\* updateFromHeaders: headers is [remaining, reset, limit], each an optional string
updateFromHeaders(b, headers) ==
    [b EXCEPT
        !.remaining = IF Truthy(headers.remaining) THEN parseInt(The(headers.remaining)) ELSE @,
        !.reset_at = IF Truthy(headers.reset)
                     THEN JsTimes(parseInt(The(headers.reset)), 1000) ELSE @,
        !.limit = IF Truthy(headers.limit) THEN parseInt(The(headers.limit)) ELSE @]

----------------------------------------------------------------------------
(* The limiter's operations as steps; the history variables follow them *)

NoHeaders == [remaining |-> {}, reset |-> {}, limit |-> {}]

\* the quota headers a response may carry: each field absent or a string.
\* x-ratelimit-remaining: "0", "2", "-1", "x"; x-ratelimit-reset: "0", "2" (seconds);
\* x-ratelimit-limit: "", "1"
HeaderSets ==
    [remaining : {{}, {<<"0">>}, {<<"2">>}, {<<"-", "1">>}, {<<"x">>}},
     reset : {{}, {<<"0">>}, {<<"2">>}},
     limit : {{}, {<<>>}, {<<"1">>}}]

\* what a header builder gave: it threw an Error(message), or returned the fields
NoHdr == [threw |-> FALSE, message |-> "", fields |-> <<>>]

\* the record of an operation that returned: its result (ret; for a dispatch or tool
\* call the success flag), the error's code where the error object has one and its
\* details.retry_after where it has that, the response that the upstream gave to the
\* request the call was awaiting, the data of a success, the network requests the call issued, whether the call is still awaiting one, and
\* whether this is the step in which the call began; for a call that came through the
\* server's call-tool handler the tool name and the arguments of the request, the
\* exception the handler caught, and the response it handed to the transport
Returned(op, category, ret) ==
    [op |-> op, category |-> category, api |-> "none", tool |-> "none", ret |-> ret,
     code |-> {}, retry_after |-> {}, status |-> {}, upstream |-> {},
     headers |-> NoHeaders, sent |-> 0,
     awaiting |-> FALSE, begun |-> FALSE, hdr |-> NoHdr, answer |-> {}, data |-> {},
     name |-> "none", args |-> "none", caught |-> {}, response |-> {}, update |-> {}]

\* the history after a limiter call with result r on category c; granted is kept
\* only while the category is clean
Count(r, c, isConsume) ==
    /\ clean' = [clean EXCEPT ![c] = @ /\ ~(isConsume /\ ~enabled)]
    /\ granted' = [granted EXCEPT ![c] =
            IF ~clean'[c] THEN 0
            ELSE IF isConsume /\ r.ret THEN (IF r.reset THEN 0 ELSE @) + 1
            ELSE IF r.reset THEN 0 ELSE @]

\* canExecute whose lazy reset refreshes every bucket whose window has elapsed
CallCanExecute_resetsAll(c) ==
    LET r == canExecute(buckets[c], c, enabled, now)
    IN  /\ buckets' = [d \in RateLimitCategory |->
                IF d = c THEN r.bucket
                ELSE IF r.reset /\ Expired(buckets[d], now)
                THEN resetBucket(buckets[d], d, now) ELSE buckets[d]]
        /\ Count(r, c, FALSE)
        /\ last' = Returned("canExecute", c, r.ret)
        /\ UNCHANGED <<enabled, now, tokens, config, devices, inflight, resyncs>>

CallCanExecute(c) ==
    LET r == canExecute(buckets[c], c, enabled, now)
    IN  /\ buckets' = [buckets EXCEPT ![c] = r.bucket]
        /\ Count(r, c, FALSE)
        /\ last' = Returned("canExecute", c, r.ret)
        /\ UNCHANGED <<enabled, now, tokens, config, devices, inflight, resyncs>>

CallConsume(c) ==
    LET r == consume(buckets[c], c, enabled, now)
    IN  /\ buckets' = [buckets EXCEPT ![c] = r.bucket]
        /\ Count(r, c, TRUE)
        /\ last' = Returned("consume", c, r.ret)
        /\ UNCHANGED <<enabled, now, tokens, config, devices, inflight, resyncs>>

CallUpdateFromHeaders(c, h) ==
    /\ resyncs < MaxResync
    /\ resyncs' = resyncs + 1
    /\ buckets' = [buckets EXCEPT ![c] = updateFromHeaders(@, h)]
    /\ clean' = [clean EXCEPT ![c] = FALSE]
    /\ granted' = [granted EXCEPT ![c] = 0]
    /\ last' = [Returned("updateFromHeaders", c, TRUE) EXCEPT !.headers = h]
    /\ UNCHANGED <<enabled, now, tokens, config, devices, inflight>>

CallSetEnabled(e) ==
    /\ enabled' = e
    /\ last' = Returned("setEnabled", "none", e)
    /\ UNCHANGED <<buckets, now, tokens, config, devices, inflight, granted, clean, resyncs>>

\* the clock moves on by one second
Advance ==
    /\ now + 1000 <= MaxNow * 1000
    /\ now' = now + 1000
    /\ last' = Returned("advance", "none", TRUE)
    /\ UNCHANGED <<buckets, enabled, tokens, config, devices, inflight, granted, clean, resyncs>>

\* the categories the limiter is called with
LimiterInputs == {"read", "content_publish"}

NoTokens == [graph_api |-> {}, private_api |-> {}]
NoConfig == [access_token |-> {}, session_id |-> {}, business_account_id |-> {}]

\* the Contabo module as loaded: accessToken = null, tokenExpiry = null, no call
\* running; with the tokens and the auth requests of the run so far, and what the
\* last step of a call was
ContaboIdle ==
    [accessToken |-> {}, tokenExpiry |-> {}, calls |-> EmptyBag, minted |-> 0,
     authSent |-> 0, event |-> "load", token |-> {}]

\* the Canva module as loaded: browser = null, page = null, no call running; with the
\* browsers launched so far (numbered), those of them not closed, what the last use of
\* page found in browser and page, and how the last step of a call ended
CanvaIdle ==
    [browser |-> {}, page |-> {}, live |-> {}, launched |-> 0, calls |-> EmptyBag,
     used |-> {}, event |-> "load"]

\* the VPS server before a call: no connection, no timer, no promise
SshIdle ==
    [n |-> 0, pc |-> "idle", timer |-> "none", ended |-> FALSE, settled |-> {},
     tries |-> 0, output |-> <<>>, errors |-> 0, response |-> {}]

\* no content-publishing tool has been called
PubIdle ==
    [tool |-> "none", pc |-> "idle", media |-> <<>>, item |-> 1, i |-> 0, checks |-> 0,
     waits |-> <<>>]

\* nothing outside the Instagram core has happened
ExtIdle ==
    /\ pub = PubIdle
    /\ issued = [c \in RateLimitCategory |-> 0]
    /\ contabo = ContaboIdle
    /\ canva = CanvaIdle
    /\ ssh = SshIdle

\* new RateLimiter(e) at time 0, on its own
InitLimiter ==
    /\ enabled \in BOOLEAN
    /\ now = 0
    /\ buckets = initializeBuckets(0)
    /\ tokens = NoTokens
    /\ config = NoConfig
    /\ inflight = EmptyBag
    /\ last = Returned("new", "none", TRUE)
    /\ granted = [c \in RateLimitCategory |-> 0]
    /\ clean = [c \in RateLimitCategory |-> TRUE]
    /\ resyncs = 0
    /\ devices = {}
    /\ ExtIdle

NextLimiter ==
    /\ \/ \E c \in LimiterInputs : CallCanExecute(c)
       \/ \E c \in LimiterInputs : CallConsume(c)
       \/ \E c \in LimiterInputs, h \in HeaderSets : CallUpdateFromHeaders(c, h)
       \/ \E e \in BOOLEAN : CallSetEnabled(e)
       \/ Advance
    /\ UNCHANGED ext

SpecLimiter == InitLimiter /\ [][NextLimiter]_vars

----------------------------------------------------------------------------
(* InstagramAuth *)

\* the secrets of the model: "", "Aa", "BB"
Secrets == {<<>>, <<"A", "a">>, <<"B", "B">>}
OptSecrets == {{}} \cup {{x} : x \in Secrets}

\* initializeTokens
initializeTokens(cfg) ==
    [graph_api |->
        IF Truthy(cfg.access_token)
        THEN {[access_token |-> The(cfg.access_token), expires_at |-> {},
               token_type |-> "bearer"]}
        ELSE {},
     private_api |->
        IF Truthy(cfg.session_id)
        THEN {[session_id |-> The(cfg.session_id), csrf_token |-> {}, user_id |-> {}]}
        ELSE {}]

\* this.tokens.graph_api?.access_token
getGraphApiToken(tok) ==
    IF tok.graph_api = {} THEN {} ELSE {The(tok.graph_api).access_token}

\* this.tokens.private_api?.session_id
getPrivateApiSession(tok) ==
    IF tok.private_api = {} THEN {} ELSE {The(tok.private_api).session_id}

hasGraphApiAuth(tok) ==
    tok.graph_api # {} /\ The(tok.graph_api).access_token # <<>>

hasPrivateApiAuth(tok) ==
    tok.private_api # {} /\ The(tok.private_api).session_id # <<>>

isAuthenticated(tok) == hasGraphApiAuth(tok) \/ hasPrivateApiAuth(tok)

\* getGraphApiHeaders that throws only when the token is undefined
getGraphApiHeaders_undefinedOnly(tok) ==
    LET token == getGraphApiToken(tok)
    IN  IF token = {}
        THEN [threw |-> TRUE, message |-> "Graph API token non disponible", fields |-> <<>>]
        ELSE [threw |-> FALSE, message |-> "",
              fields |-> [Authorization |-> <<"Bearer ">> \o The(token),
                          ContentType |-> "application/json"]]

getGraphApiHeaders(tok) ==
    LET token == getGraphApiToken(tok)
    IN  IF ~Truthy(token)
        THEN [threw |-> TRUE, message |-> "Graph API token non disponible", fields |-> <<>>]
        ELSE [threw |-> FALSE, message |-> "",
              fields |-> [Authorization |-> <<"Bearer ">> \o The(token),
                          ContentType |-> "application/json"]]

\* charCodeAt of the characters that the model's seeds are made of
CharCode(ch) ==
    CASE ch = "A" -> 65 [] ch = "B" -> 66 [] ch = "a" -> 97 [] ch = "b" -> 98
      [] ch = "d" -> 100 [] ch = "e" -> 101 [] ch = "f" -> 102 [] ch = "l" -> 108
      [] ch = "t" -> 116 [] ch = "u" -> 117

\* ((hash << 5) - hash) + char, then hash & hash: 31 * hash + char as a signed 32-bit
\* integer, computed on 16-bit halves
HashStep(hash, char) ==
    LET t == 31 * (hash % 65536) + char
        hi == 31 * (hash \div 65536) + (t \div 65536)
    IN  (((hi + 32768) % 65536) - 32768) * 65536 + (t % 65536)

RECURSIVE HashFrom(_, _)
\* the loop over the seed's characters
HashFrom(seed, hash) ==
    IF seed = <<>> THEN hash ELSE HashFrom(Tail(seed), HashStep(hash, CharCode(Head(seed))))

HexDigits ==
    <<"0", "1", "2", "3", "4", "5", "6", "7", "8", "9", "a", "b", "c", "d", "e", "f">>

RECURSIVE ToHex(_)
\* n.toString(16) for n >= 0
ToHex(n) ==
    IF n < 16 THEN <<HexDigits[n + 1]>>
    ELSE ToHex(n \div 16) \o <<HexDigits[(n % 16) + 1]>>

\* Math.abs(hash).toString(16)
AbsHex(hash) ==
    IF hash = -2147483647 - 1 THEN <<"8", "0", "0", "0", "0", "0", "0", "0">>
    ELSE ToHex(IF hash < 0 THEN -hash ELSE hash)

\* str.padStart(len, ch)
PadStart(str, len, ch) ==
    IF Len(str) >= len THEN str
    ELSE [i \in 1..len |-> IF i <= len - Len(str) THEN ch ELSE str[i - (len - Len(str))]]

\* str.slice(from, to)
Slice(str, from, to) == SubSeq(str, from + 1, to)

\* the seed of the device id: the session id, 'default' when it is missing or empty
DeviceSeed(tok) ==
    IF Truthy(getPrivateApiSession(tok)) THEN The(getPrivateApiSession(tok))
    ELSE <<"d", "e", "f", "a", "u", "l", "t">>

\* generateDeviceId
generateDeviceId(tok) ==
    LET hex == PadStart(AbsHex(HashFrom(DeviceSeed(tok), 0)), 32, "0")
    IN  Slice(hex, 0, 8) \o <<"-">> \o Slice(hex, 8, 12) \o <<"-", "4">>
            \o Slice(hex, 13, 16) \o <<"-", "a">> \o Slice(hex, 17, 20) \o <<"-">>
            \o Slice(hex, 20, 32)

getPrivateApiHeaders(tok) ==
    LET sessionId == getPrivateApiSession(tok)
    IN  IF ~Truthy(sessionId)
        THEN [threw |-> TRUE, message |-> "Private API session non disponible",
              fields |-> <<>>]
        ELSE [threw |-> FALSE, message |-> "",
              fields |-> [Cookie |-> <<"sessionid=">> \o The(sessionId),
                          XIGAppID |-> "936619743392459",
                          XIGDeviceID |-> generateDeviceId(tok),
                          ContentType |-> "application/x-www-form-urlencoded"]]

\* updateGraphApiToken that merges the update into the previous set
updateGraphApiToken_merges(tok, token, expiresAt) ==
    [tok EXCEPT !.graph_api =
        {[access_token |-> token,
          expires_at |-> IF expiresAt = {} /\ tok.graph_api # {}
                         THEN The(tok.graph_api).expires_at ELSE expiresAt,
          token_type |-> "bearer"]}]

\* isGraphApiTokenExpired at time t: never without an expiry (undefined or 0)
isGraphApiTokenExpired(tok, t) ==
    IF tok.graph_api = {} \/ The(tok.graph_api).expires_at \in {{}, {0}} THEN FALSE
    ELSE t >= The(The(tok.graph_api).expires_at)

updateGraphApiToken(tok, token, expiresAt) ==
    [tok EXCEPT !.graph_api =
        {[access_token |-> token, expires_at |-> expiresAt, token_type |-> "bearer"]}]

updatePrivateApiSession(tok, sessionId, csrfToken, userId) ==
    [tok EXCEPT !.private_api =
        {[session_id |-> sessionId, csrf_token |-> csrfToken, user_id |-> userId]}]

\* the configurations of the model
Configs ==
    [access_token : OptSecrets, session_id : OptSecrets,
     business_account_id : {{}, {<<"7">>}}]

(* The store's operations as steps *)

CallGetGraphApiHeaders ==
    /\ last' = [Returned("getGraphApiHeaders", "none", ~getGraphApiHeaders(tokens).threw)
                    EXCEPT !.api = "graph", !.hdr = getGraphApiHeaders(tokens)]
    /\ UNCHANGED <<buckets, enabled, now, tokens, config, devices, inflight, granted, clean, resyncs>>

CallGetPrivateApiHeaders ==
    LET hdr == getPrivateApiHeaders(tokens)
    IN  /\ last' = [Returned("getPrivateApiHeaders", "none", ~hdr.threw)
                        EXCEPT !.api = "private", !.hdr = hdr]
        /\ devices' = IF hdr.threw THEN devices
                      ELSE devices \cup {[secret |-> The(getPrivateApiSession(tokens)),
                                          id |-> hdr.fields.XIGDeviceID]}
        /\ UNCHANGED <<buckets, enabled, now, tokens, config, inflight, granted, clean,
                       resyncs>>

\* a separate instance: new InstagramAuth(cfg)
CallNewAuth(cfg) ==
    /\ config' = cfg
    /\ tokens' = initializeTokens(cfg)
    /\ last' = Returned("newAuth", "none", TRUE)
    /\ UNCHANGED <<buckets, enabled, now, devices, inflight, granted, clean, resyncs>>

CallUpdateGraphApiToken(token, expiresAt) ==
    /\ tokens' = updateGraphApiToken(tokens, token, expiresAt)
    /\ last' = [Returned("updateGraphApiToken", "none", TRUE) EXCEPT
                    !.api = "graph",
                    !.update = {[secret |-> token, expiresAt |-> expiresAt,
                                 had |-> tokens.graph_api # {}
                                         /\ The(tokens.graph_api).expires_at # {}]}]
    /\ UNCHANGED <<buckets, enabled, now, config, devices, inflight, granted, clean, resyncs>>

CallUpdatePrivateApiSession(sessionId, csrfToken, userId) ==
    /\ tokens' = updatePrivateApiSession(tokens, sessionId, csrfToken, userId)
    /\ last' = [Returned("updatePrivateApiSession", "none", TRUE) EXCEPT
                    !.api = "private",
                    !.update = {[secret |-> sessionId, csrfToken |-> csrfToken,
                                 userId |-> userId,
                                 had |-> tokens.private_api # {}
                                         /\ (The(tokens.private_api).csrf_token # {}
                                             \/ The(tokens.private_api).user_id # {})]}]
    /\ UNCHANGED <<buckets, enabled, now, config, devices, inflight, granted, clean, resyncs>>

\* new InstagramAuth(config) at time 0, on its own
InitAuth ==
    /\ config \in Configs
    /\ tokens = initializeTokens(config)
    /\ enabled = TRUE
    /\ now = 0
    /\ buckets = initializeBuckets(0)
    /\ inflight = EmptyBag
    /\ last = Returned("new", "none", TRUE)
    /\ granted = [c \in RateLimitCategory |-> 0]
    /\ clean = [c \in RateLimitCategory |-> TRUE]
    /\ resyncs = 0
    /\ devices = {}
    /\ ExtIdle

NextAuth ==
    /\ \/ CallGetGraphApiHeaders
       \/ CallGetPrivateApiHeaders
       \/ \E token \in Secrets, expiresAt \in {{}, {1000}} :
               CallUpdateGraphApiToken(token, expiresAt)
       \/ \E sessionId \in Secrets, csrfToken \in {{}, {<<"c">>}}, userId \in {{}, {<<"7">>}} :
               CallUpdatePrivateApiSession(sessionId, csrfToken, userId)
       \/ \E cfg \in Configs : CallNewAuth(cfg)
    /\ UNCHANGED ext

SpecAuth == InitAuth /\ [][NextAuth]_vars

----------------------------------------------------------------------------
(* InstagramClient *)

ApiType == {"graph", "private"}
DispatchOps == {"get", "post", "delete", "uploadMedia"}

\* the default rateLimitCategory of each operation
DefaultCategory(op) ==
    CASE op = "get" -> "read"
      [] op = "post" -> "write"
      [] op = "delete" -> "write"
      [] op = "uploadMedia" -> "content_publish"

\* what the upstream may answer: a 2xx with quota headers and a body whose status field
\* is 'ok' or not, or a failure: a status (none when no response came: a timeout or
\* another transport error), an error payload whose code may be missing, and a
\* retry-after header, which the upstream of the model sends with a 429 only
Failures ==
    {f \in [status : {{}, {429}, {401}, {403}, {400}},
            error : {{}, {[code |-> {}]}, {[code |-> {"190"}]}},
            retry_after : {{}, {"37"}}] :
        /\ f.status = {} => f.error = {}
        /\ f.retry_after # {} => f.status = {429}}
\* the quota headers a response may carry: none, an exhausted smaller quota, a refilled
\* quota with a later reset
ResponseQuota ==
    {NoHeaders,
     [remaining |-> {<<"0">>}, reset |-> {}, limit |-> {<<"1">>}],
     [remaining |-> {<<"2">>}, reset |-> {<<"2">>}, limit |-> {}]}
\* a success is a 200 whose body has status 'ok' or not, or a 204, which has no body
Successes ==
    {r \in [quota : ResponseQuota, ok : BOOLEAN, status : {{200}, {204}}] :
        r.status = {204} => ~r.ok}

\* response.data as axios gives it: the parsed body, the empty string when there is none
ResponseData(resp) ==
    IF resp.status = {204} THEN ""
    ELSE IF resp.ok THEN "{status: 'ok'}" ELSE "{}"

\* the data of the ApiResponse that a successful call returns
ReturnedData(call, resp) ==
    IF call.op = "uploadMedia" THEN "{id, container_id}" ELSE ResponseData(resp)

\* the code of an upstream error payload, API_ERROR when it has none
PayloadCode(f) ==
    IF The(f.error).code # {} THEN The(The(f.error).code) ELSE "API_ERROR"

\* handleApiError with the upstream error payload looked at before the status
handleApiError_payloadFirst(f) ==
    IF f.error # {}
    THEN [code |-> PayloadCode(f), retry_after |-> {}, status |-> {}, upstream |-> f.error]
    ELSE IF f.status = {429}
    THEN [code |-> "RATE_LIMIT_EXCEEDED", retry_after |-> f.retry_after, status |-> {},
          upstream |-> {}]
    ELSE IF f.status \in {{401}, {403}}
    THEN [code |-> "AUTH_ERROR", retry_after |-> {}, status |-> f.status, upstream |-> {}]
    ELSE [code |-> "REQUEST_FAILED", retry_after |-> {}, status |-> f.status,
          upstream |-> {}]

\* handleApiError: the ApiError thrown for a failed request: its code, and of its
\* details the retry_after, the status and the upstream error payload spread into them
handleApiError(f) ==
    IF f.status = {429}
    THEN [code |-> "RATE_LIMIT_EXCEEDED", retry_after |-> f.retry_after, status |-> {},
          upstream |-> {}]
    ELSE IF f.status \in {{401}, {403}}
    THEN [code |-> "AUTH_ERROR", retry_after |-> {}, status |-> f.status, upstream |-> {}]
    ELSE IF f.error # {}
    THEN [code |-> PayloadCode(f), retry_after |-> {}, status |-> {}, upstream |-> f.error]
    ELSE [code |-> "REQUEST_FAILED", retry_after |-> {}, status |-> f.status,
          upstream |-> {}]

\* the headers of the api a call selected
HeadersFor(api, tok) ==
    IF api = "graph" THEN getGraphApiHeaders(tok) ELSE getPrivateApiHeaders(tok)

\* who asked for a dispatch: a tool method (none: the client was called directly), the
\* name under which the call-tool handler was asked for the tool (none: the method was
\* called directly) and the arguments of that request
Direct == [tool |-> "none", name |-> "none", args |-> "none"]

\* how JSON.stringify renders the error of a returned result: an object with code and
\* message (and details), {} for an Error instance, nothing when there is no error
ErrorShape(code, hdr) ==
    IF code # {} THEN "{code, message}"
    ELSE IF hdr.threw THEN "{}"
    ELSE "absent"

\* the call-tool handler's response for a result that the tool returned
ReturnedResponse(ret, code, hdr) ==
    [blocks |-> 1, isError |-> FALSE, success |-> ret, error |-> ErrorShape(code, hdr)]

\* the call-tool handler's response for an exception that it caught
CaughtResponse ==
    [blocks |-> 1, isError |-> TRUE, success |-> FALSE, error |-> "string"]

\* the result a call returns to its caller; a call that came through the call-tool
\* handler ends with the handler's response
Result(call, ret, code, quota, hdr, begun) ==
    [op |-> call.op, category |-> call.category, api |-> call.api, tool |-> call.tool,
     ret |-> ret, code |-> code, retry_after |-> {}, status |-> {}, upstream |-> {},
     headers |-> quota, sent |-> call.sent,
     awaiting |-> FALSE, begun |-> begun, hdr |-> hdr, answer |-> {}, data |-> {},
     name |-> call.name, args |-> call.args, caught |-> {},
     response |-> IF call.name = "none" THEN {} ELSE {ReturnedResponse(ret, code, hdr)},
     update |-> {}]

\* the call has issued one more request and awaits its response, with at most max
\* calls suspended at once
AwaitWithin(call, begun, max) ==
    /\ BagCardinality(inflight) < max
    /\ inflight' = inflight (+) SetToBag({[call EXCEPT !.sent = @ + 1]})
    /\ last' = [Result([call EXCEPT !.sent = @ + 1], TRUE, {}, NoHeaders, NoHdr, begun)
                    EXCEPT !.awaiting = TRUE, !.response = {}]

Await(call, begun) == AwaitWithin(call, begun, MaxInflight)

\* the history after canExecute / consume with result r on category c
GrantedAfter(r, c, isConsume, cleanAfter) ==
    [granted EXCEPT ![c] =
        IF ~cleanAfter THEN 0
        ELSE IF isConsume /\ r.ret THEN (IF r.reset THEN 0 ELSE @) + 1
        ELSE IF r.reset THEN 0 ELSE @]

\* get, post, delete up to the await of the request, with the gate left out
StartDispatch_noGate(op, api, cat, by) ==
    LET call == [op |-> op, api |-> api, category |-> cat, tool |-> by.tool,
                 name |-> by.name, args |-> by.args, stage |-> 1, sent |-> 0]
        hdr == HeadersFor(api, tokens)
    IN  /\ op \in {"get", "post", "delete"}
        /\ IF hdr.threw
           THEN /\ last' = Result(call, FALSE, {}, NoHeaders, hdr, TRUE)
                /\ inflight' = inflight
           ELSE Await(call, TRUE)
        /\ UNCHANGED <<buckets, granted, clean, enabled, now, tokens, config, devices, resyncs>>

\* get, post, delete up to the await of the request: the rate-limit gate, the headers
\* (a throw is caught and returned as the error), then the request; at most max calls
\* are suspended at once
StartDispatchWithin(op, api, cat, by, max) ==
    LET call == [op |-> op, api |-> api, category |-> cat, tool |-> by.tool,
                 name |-> by.name, args |-> by.args, stage |-> 1, sent |-> 0]
        r == canExecute(buckets[cat], cat, enabled, now)
        hdr == HeadersFor(api, tokens)
    IN  /\ op \in {"get", "post", "delete"}
        /\ buckets' = [buckets EXCEPT ![cat] = r.bucket]
        /\ granted' = GrantedAfter(r, cat, FALSE, clean[cat])
        /\ IF ~r.ret
           THEN /\ last' = Result(call, FALSE, {"RATE_LIMIT_LOCAL"}, NoHeaders, NoHdr, TRUE)
                /\ inflight' = inflight
           ELSE IF hdr.threw
           THEN /\ last' = Result(call, FALSE, {}, NoHeaders, hdr, TRUE)
                /\ inflight' = inflight
           ELSE AwaitWithin(call, TRUE, max)
        /\ UNCHANGED <<clean, enabled, now, tokens, config, devices, resyncs>>

StartDispatch(op, api, cat, by) == StartDispatchWithin(op, api, cat, by, MaxInflight)

\* uploadMedia up to the await of the container request
StartUpload ==
    LET cat == DefaultCategory("uploadMedia")
        call == [op |-> "uploadMedia", api |-> "graph", category |-> cat, tool |-> "none",
                 name |-> "none", args |-> "none", stage |-> 1, sent |-> 0]
        r == canExecute(buckets[cat], cat, enabled, now)
        hdr == getGraphApiHeaders(tokens)
    IN  /\ buckets' = [buckets EXCEPT ![cat] = r.bucket]
        /\ granted' = GrantedAfter(r, cat, FALSE, clean[cat])
        /\ IF ~r.ret
           THEN /\ last' = Result(call, FALSE, {"RATE_LIMIT_LOCAL"}, NoHeaders, NoHdr, TRUE)
                /\ inflight' = inflight
           ELSE IF ~Truthy(config.business_account_id)
           THEN /\ last' = Result(call, FALSE, {"CONFIG_ERROR"}, NoHeaders, NoHdr, TRUE)
                /\ inflight' = inflight
           ELSE IF hdr.threw
           THEN /\ last' = Result(call, FALSE, {}, NoHeaders, hdr, TRUE)
                /\ inflight' = inflight
           ELSE Await(call, TRUE)
        /\ UNCHANGED <<clean, enabled, now, tokens, config, devices, resyncs>>

\* the tools that exist on the Private API only
PrivateTools == {"likeMedia", "deleteReel", "pinComment"}

\* the tools that have a Graph API branch and a Private API branch
DualTools == {"createComment", "deleteComment", "listComments", "getProfile"}

\* the success flag of the result that the caller of a successful client call returns:
\* the Private-API tools and deleteComment's Private branch want the body's status to
\* be 'ok'; listComments and the Private branches of createComment and getProfile want
\* a body; every other caller hands the client's result on
ToolSuccess(call, resp) ==
    CASE call.tool \in PrivateTools -> resp.ok
      [] call.tool = "deleteComment" /\ call.api = "private" -> resp.ok
      [] call.tool = "listComments" -> ResponseData(resp) # ""
      [] call.tool \in {"createComment", "getProfile"} /\ call.api = "private" ->
            ResponseData(resp) # ""
      [] OTHER -> TRUE

\* CompleteFailure that consumes the quota of the failed request
CompleteFailure_consumes(call, f) ==
    /\ call \in BagToSet(inflight)
    /\ inflight' = inflight (-) SetToBag({call})
    /\ buckets' = [buckets EXCEPT ![call.category] =
                        consume(@, call.category, enabled, now).bucket]
    /\ last' = [Result(call, FALSE, {handleApiError(f).code}, NoHeaders, NoHdr, FALSE)
                    EXCEPT !.retry_after = handleApiError(f).retry_after,
                           !.status = handleApiError(f).status,
                           !.upstream = handleApiError(f).upstream, !.answer = {f}]
    /\ UNCHANGED <<granted, clean, enabled, now, tokens, config, devices, resyncs>>

\* the request of a call failed: the interceptor's ApiError is caught and returned
CompleteFailure(call, f) ==
    /\ call \in BagToSet(inflight)
    /\ inflight' = inflight (-) SetToBag({call})
    /\ last' = [Result(call, FALSE, {handleApiError(f).code}, NoHeaders, NoHdr, FALSE)
                    EXCEPT !.retry_after = handleApiError(f).retry_after,
                           !.status = handleApiError(f).status,
                           !.upstream = handleApiError(f).upstream, !.answer = {f}]
    /\ UNCHANGED <<buckets, granted, clean, enabled, now, tokens, config, devices, resyncs>>

\* the request of a call succeeded.  get and post: consume, then updateFromHeaders with
\* the response headers.  delete: consume.  uploadMedia: the publish request after the
\* container request, consume after the publish request.  A tool that awaited the
\* call and returns right after it returns with ToolSuccess.
CompleteSuccess(call, resp) ==
    LET c == call.category
        r == consume(buckets[c], c, enabled, now)
        resync == call.op \in {"get", "post"}
        told == resync /\ resp.quota # NoHeaders
        cleanAfter == clean[c] /\ enabled /\ ~told
        hdr == getGraphApiHeaders(tokens)
    IN  /\ call \in BagToSet(inflight)
        /\ told => resyncs < MaxResync
        /\ resyncs' = IF told THEN resyncs + 1 ELSE resyncs
        /\ IF call.op = "uploadMedia" /\ call.stage = 1
           THEN /\ IF hdr.threw
                   THEN /\ inflight' = inflight (-) SetToBag({call})
                        /\ last' = Result(call, FALSE, {}, NoHeaders, hdr, FALSE)
                   ELSE /\ inflight' = (inflight (-) SetToBag({call}))
                                (+) SetToBag({[call EXCEPT !.stage = 2, !.sent = @ + 1]})
                        /\ last' = [Result([call EXCEPT !.sent = @ + 1], TRUE, {}, NoHeaders,
                                           NoHdr, FALSE)
                                        EXCEPT !.awaiting = TRUE, !.response = {}]
                /\ UNCHANGED <<buckets, granted, clean>>
           ELSE /\ inflight' = inflight (-) SetToBag({call})
                /\ buckets' = [buckets EXCEPT ![c] =
                        IF resync THEN updateFromHeaders(r.bucket, resp.quota) ELSE r.bucket]
                /\ clean' = [clean EXCEPT ![c] = cleanAfter]
                /\ granted' = GrantedAfter(r, c, TRUE, cleanAfter)
                /\ last' = [Result(call, ToolSuccess(call, resp), {}, resp.quota, NoHdr, FALSE)
                                EXCEPT !.answer = {resp}, !.data = {ReturnedData(call, resp)}]
        /\ UNCHANGED <<enabled, now, tokens, config, devices>>

(* Tools that exist on the Private API only *)

\* the rateLimitCategory the tool passes to client.post
ToolCategory(tool) ==
    IF tool = "likeMedia" THEN "likes" ELSE DefaultCategory("post")

\* likeMedia, deleteReel, pinComment up to their first await, asked for by the handler
\* under name (none: called directly) with the request's arguments.  The guard needs no
\* argument; the endpoint is built from params.media_id (reel_id, comment_id), which
\* throws a TypeError when params is undefined and takes any other value as it is.
StartPrivateTool(tool, name, args) ==
    IF ~hasPrivateApiAuth(tokens)
    THEN /\ last' = [Returned("none", "none", FALSE) EXCEPT
                        !.tool = tool, !.api = "private", !.code = {"NOT_SUPPORTED"},
                        !.begun = TRUE, !.name = name, !.args = args,
                        !.response = IF name = "none" THEN {}
                                     ELSE {ReturnedResponse(FALSE, {"NOT_SUPPORTED"}, NoHdr)}]
         /\ UNCHANGED <<buckets, granted, clean, enabled, now, tokens, config, devices, inflight,
                        resyncs>>
    ELSE IF args = "undefined"
    THEN /\ name # "none"
         /\ last' = [Returned("none", "none", FALSE) EXCEPT
                        !.tool = tool, !.api = "private", !.begun = TRUE,
                        !.name = name, !.args = args, !.caught = {"TypeError"},
                        !.response = {CaughtResponse}]
         /\ UNCHANGED <<buckets, granted, clean, enabled, now, tokens, config, devices, inflight,
                        resyncs>>
    ELSE StartDispatch("post", "private", ToolCategory(tool),
                       [tool |-> tool, name |-> name, args |-> args])

\* the configurations the server may start with: each credential set or not
ClientConfigs ==
    {cfg \in Configs : /\ cfg.access_token \in {{}, {<<"A", "a">>}}
                        /\ cfg.session_id \in {{}, {<<"A", "a">>}}}

\* new InstagramClient(config) at time 0
Init ==
    /\ config \in ClientConfigs
    /\ tokens = initializeTokens(config)
    /\ enabled \in BOOLEAN
    /\ now = 0
    /\ buckets = initializeBuckets(0)
    /\ inflight = EmptyBag
    /\ last = Returned("new", "none", TRUE)
    /\ granted = [c \in RateLimitCategory |-> 0]
    /\ clean = [c \in RateLimitCategory |-> TRUE]
    /\ resyncs = 0
    /\ devices = {}
    /\ ExtIdle

Next ==
    /\ \/ \E op \in {"get", "post", "delete"}, api \in ApiType :
               StartDispatch(op, api, DefaultCategory(op), Direct)
       \/ StartUpload
       \/ \E call \in BagToSet(inflight), f \in Failures : CompleteFailure(call, f)
       \/ \E call \in BagToSet(inflight), resp \in Successes : CompleteSuccess(call, resp)
       \/ Advance
    /\ UNCHANGED ext

Spec == Init /\ [][Next]_vars

----------------------------------------------------------------------------
(* The MCP server's call-tool handler (index.ts) *)

\* the names the handler is asked for: two tools of the switch that need the Private
\* API, the rate-limit utility, and a name that the switch does not have
ToolNames ==
    {"instagram_like_media", "instagram_pin_comment", "instagram_get_rate_limits",
     "instagram_delete_reel"}

\* the arguments of a request: an object that satisfies the tool's zod schema, an object
\* that violates it (media_id missing or a number), or no arguments at all
ToolArgs == {"valid", "invalid", "undefined"}

\* the handler threw inside its try block and caught the exception
Caught(name, args, message) ==
    /\ last' = [Returned("none", "none", FALSE) EXCEPT
                    !.begun = TRUE, !.name = name, !.args = args, !.caught = {message},
                    !.response = {CaughtResponse}]
    /\ UNCHANGED <<buckets, granted, clean, enabled, now, tokens, config, devices, inflight, resyncs>>

\* the CallToolRequestSchema handler up to its first await: the switch on the name
\* passes the arguments to the tool as they are
CallTool(name, args) ==
    CASE name = "instagram_like_media" -> StartPrivateTool("likeMedia", name, args)
      [] name = "instagram_pin_comment" -> StartPrivateTool("pinComment", name, args)
      [] name = "instagram_get_rate_limits" ->
            /\ last' = [Returned("none", "none", TRUE) EXCEPT
                            !.begun = TRUE, !.name = name, !.args = args,
                            !.data = {"{read, write, content_publish, ...}"},
                            !.response = {ReturnedResponse(TRUE, {}, NoHdr)}]
            /\ UNCHANGED <<buckets, granted, clean, enabled, now, tokens, config, devices, inflight,
                           resyncs>>
      [] OTHER -> Caught(name, args, "Tool inconnu")

NextServer ==
    /\ \/ \E name \in ToolNames, args \in ToolArgs : CallTool(name, args)
       \/ StartPrivateTool("deleteReel", "none", "valid")
       \/ \E call \in BagToSet(inflight), f \in Failures : CompleteFailure(call, f)
       \/ \E call \in BagToSet(inflight), resp \in Successes : CompleteSuccess(call, resp)
       \/ Advance
    /\ UNCHANGED ext

\* the server with its client, serving tool calls
SpecServer == Init /\ [][NextServer]_vars

----------------------------------------------------------------------------
(* The content-publishing tools: PostsTools.createPost and createCarousel,        *)
(* ReelsTools.createReel, StoriesTools.createStory, each with its poll loop.      *)
(* A tool awaits one client call at a time; the frame pub holds its position      *)
(* (pc), the media of the request (video or not), the carousel item at hand, the  *)
(* loop counter i, the status checks of the current loop and the results of the   *)
(* loops that ended.                                                               *)

PublishTools == {"createPost", "createCarousel", "createReel", "createStory"}

\* the default maxAttempts of the tool's poll loop, scaled
ScaleAttempts(n) == Min(n, MaxAttempts)
maxAttempts(tool) ==
    CASE tool \in {"createPost", "createCarousel"} -> ScaleAttempts(30)
      [] tool = "createReel" -> ScaleAttempts(60)
      [] tool = "createStory" -> ScaleAttempts(20)

\* the pause of the poll loop between two status checks, ms
PollDelay(tool) ==
    CASE tool \in {"createPost", "createCarousel"} -> 2000
      [] tool = "createReel" -> 3000
      [] tool = "createStory" -> 1500

\* the rateLimitCategory of the container request
ContainerCategory(tool) ==
    IF tool = "createStory" THEN "stories" ELSE "content_publish"

\* the media a request may name: createReel always has a video, createPost and
\* createStory one medium that is a video or not, createCarousel a list of them
MediaOf(tool) ==
    CASE tool = "createReel" -> {<<TRUE>>}
      [] tool = "createCarousel" -> [1..MaxItems -> BOOLEAN]
      [] OTHER -> {<<FALSE>>, <<TRUE>>}

\* what the upstream answers to a tool's request: a 200 whose body has the status_code
\* named (none: the body has no such field), a 204, or a failure
PublishAnswers ==
    {[quota |-> NoHeaders, ok |-> FALSE, status |-> {200}, status_code |-> sc] :
        sc \in {"none", "FINISHED", "ERROR", "IN_PROGRESS"}}
    \cup {[quota |-> NoHeaders, ok |-> FALSE, status |-> {204}, status_code |-> "none"]}
PublishFailures ==
    {f \in Failures : f.error = {} /\ f.status \in {{}, {400}}}

\* result.success && result.data of a client call, as the tools test it
HasData(l) == l.ret /\ l.data \notin {{}, {""}}

\* result.data?.status_code
StatusCode(l) ==
    IF l.data \notin {{}, {""}} /\ l.answer # {} /\ "status_code" \in DOMAIN The(l.answer)
    THEN The(l.answer).status_code ELSE "none"

\* one pass of the poll loop that took every status but FINISHED for 'not yet'
waitStep_errorRetries(statusCode) ==
    IF statusCode = "FINISHED" THEN "true" ELSE "again"

\* one pass of waitForMediaProcessing, waitForVideoProcessing, waitForProcessing after
\* its status check: return true, return false, or pause and go round again
waitStep(statusCode) ==
    IF statusCode = "FINISHED" THEN "true"
    ELSE IF statusCode = "ERROR" THEN "false"
    ELSE "again"

\* the ApiResponse the tool returned
ToolReturned(tool, ret, code) ==
    [Returned("none", "none", ret) EXCEPT !.tool = tool, !.api = "graph", !.code = code]

\* the tool returns
Return(p, ret, code) ==
    /\ pub' = [p EXCEPT !.pc = "done"]
    /\ last' = ToolReturned(p.tool, ret, code)
    /\ UNCHANGED <<buckets, granted, clean, enabled, now, tokens, config, devices, inflight,
                   resyncs>>

\* the tool calls client.get or client.post on the Graph API and awaits the result
Continue(p, op, cat) ==
    /\ pub' = p
    /\ StartDispatch(op, "graph", cat, [tool |-> p.tool, name |-> "none", args |-> "none"])

\* the tool after the container is ready (its poll loop, if it had one, has ended and
\* p.waits has the result): createReel returns PROCESSING_ERROR unless the loop
\* returned true; the others go on whatever it returned: createCarousel to the next
\* item or the carousel container, createPost and createStory to media_publish
AfterWait(p) ==
    CASE p.tool = "createReel" /\ ~p.waits[Len(p.waits)] ->
            Return(p, FALSE, {"PROCESSING_ERROR"})
      [] p.tool = "createCarousel" /\ p.item < Len(p.media) ->
            Continue([p EXCEPT !.pc = "container", !.item = @ + 1], "post",
                     ContainerCategory(p.tool))
      [] p.tool = "createCarousel" ->
            Continue([p EXCEPT !.pc = "carousel"], "post", DefaultCategory("post"))
      [] OTHER ->
            Continue([p EXCEPT !.pc = "publish"], "post", DefaultCategory("post"))

\* the head of the poll loop with counter i: the next status check, or return false
\* when i has reached maxAttempts
PollHead(p) ==
    IF p.i < maxAttempts(p.tool)
    THEN Continue([p EXCEPT !.pc = "poll", !.checks = @ + 1], "get", DefaultCategory("get"))
    ELSE AfterWait([p EXCEPT !.waits = Append(@, FALSE)])

\* a tool is called: CONFIG_ERROR without a business account id, else the container
\* request of the first medium.  The request has no poll, quiz or countdown sticker.
StartPublish(tool, media) ==
    LET p == [tool |-> tool, pc |-> "container", media |-> media, item |-> 1, i |-> 0,
              checks |-> 0, waits |-> <<>>]
    IN  /\ pub.pc \in {"idle", "done"}
        /\ IF ~Truthy(config.business_account_id)
           THEN Return(p, FALSE, {"CONFIG_ERROR"})
           ELSE Continue(p, "post", ContainerCategory(tool))

\* the client call that the tool awaited has returned
Resumed ==
    /\ pub.pc \in {"container", "poll", "carousel", "publish", "permalink"}
    /\ ~last.awaiting /\ last.tool = pub.tool /\ last.op \in {"get", "post"}

\* the tool runs on from its await to the next one, or to its return
PublishResume ==
    \/ /\ Resumed /\ pub.pc = "container"
       /\ IF ~HasData(last)
          THEN IF pub.tool = "createCarousel"
               THEN Return(pub, FALSE, {"CAROUSEL_ERROR"})
               ELSE Return(pub, last.ret, last.code)
          ELSE IF pub.media[pub.item]
          THEN PollHead([pub EXCEPT !.i = 0, !.checks = 0])
          ELSE AfterWait(pub)
    \/ /\ Resumed /\ pub.pc = "poll"
       /\ CASE waitStep(StatusCode(last)) = "true" ->
                    AfterWait([pub EXCEPT !.waits = Append(@, TRUE)])
            [] waitStep(StatusCode(last)) = "false" ->
                    AfterWait([pub EXCEPT !.waits = Append(@, FALSE)])
            [] OTHER ->
                    /\ pub' = [pub EXCEPT !.pc = "sleep"]
                    /\ UNCHANGED coreVars
    \/ /\ pub.pc = "woke"
       /\ PollHead([pub EXCEPT !.i = @ + 1])
    \/ /\ Resumed /\ pub.pc = "carousel"
       /\ IF ~HasData(last)
          THEN Return(pub, last.ret, last.code)
          ELSE Continue([pub EXCEPT !.pc = "publish"], "post", DefaultCategory("post"))
    \/ /\ Resumed /\ pub.pc = "publish"
       /\ IF pub.tool = "createStory" \/ ~HasData(last)
          THEN Return(pub, last.ret, last.code)
          ELSE Continue([pub EXCEPT !.pc = "permalink"], "get", DefaultCategory("get"))
    \/ /\ Resumed /\ pub.pc = "permalink"
       /\ Return(pub, TRUE, {})

\* the pause of the poll loop ends: its timer fires after PollDelay; the clock of the
\* model stops at MaxNow
PollWake ==
    /\ pub.pc = "sleep"
    /\ pub' = [pub EXCEPT !.pc = "woke"]
    /\ now' = Min(now + PollDelay(pub.tool), MaxNow * 1000)
    /\ UNCHANGED <<buckets, granted, clean, enabled, tokens, config, devices, inflight, last,
                   resyncs>>

\* the upstream answers the tool's request, or the request fails
PublishAnswered ==
    /\ \/ \E call \in BagToSet(inflight), f \in PublishFailures : CompleteFailure(call, f)
       \/ \E call \in BagToSet(inflight), resp \in PublishAnswers : CompleteSuccess(call, resp)
    /\ UNCHANGED <<pub, contabo, canva, ssh>>

\* the configurations of the publishing server: a Graph credential, the business
\* account id set or not
PublishConfigs ==
    {cfg \in ClientConfigs : cfg.access_token # {} /\ cfg.session_id = {}}

InitPublish ==
    /\ Init
    /\ config \in PublishConfigs

NextPublish ==
    /\ \/ \E tool \in PublishTools : \E media \in MediaOf(tool) : StartPublish(tool, media)
       \/ PublishResume
       \/ PollWake
       \/ PublishAnswered
    /\ UNCHANGED <<issued, contabo, canva, ssh>>

\* the event loop runs every continuation that is ready, every timer fires, and every
\* request is answered or fails (axios has a timeout)
SpecPublish ==
    /\ InitPublish /\ [][NextPublish]_vars
    /\ WF_vars(PublishResume /\ UNCHANGED <<issued, contabo, canva, ssh>>)
    /\ WF_vars(PollWake /\ UNCHANGED <<issued, contabo, canva, ssh>>)
    /\ WF_vars(PublishAnswered /\ UNCHANGED issued)

----------------------------------------------------------------------------
(* Concurrent dispatch calls on one category.  A call suspends at the await of   *)
(* its request only; what runs between two awaits runs without interruption.    *)

\* the categories the concurrent calls use: read (get) and write (post)
ConcurrentOps == {"get", "post"}

\* the requests sent for category c since its bucket was last reset, after a step in
\* which resetBucket(c) ran or not and a request for c was sent or not
IssuedAfter(c, reset, sent) ==
    [issued EXCEPT ![c] = (IF reset THEN 0 ELSE @) + (IF sent THEN 1 ELSE 0)]

\* a call begins while others are suspended: gate, headers, request
ConcurrentStart(op) ==
    LET c == DefaultCategory(op)
    IN  /\ issued[c] < MaxIssued
        /\ StartDispatchWithin(op, "graph", c, Direct, MaxConcurrent)
        /\ issued' = IssuedAfter(c, canExecute(buckets[c], c, enabled, now).reset,
                                 last'.awaiting)
        /\ UNCHANGED <<pub, contabo, canva, ssh>>

\* the request of a suspended call is answered and the call runs to its return
ConcurrentAnswered ==
    /\ \/ \E call \in BagToSet(inflight), f \in PublishFailures : CompleteFailure(call, f)
       \/ \E call \in BagToSet(inflight), resp \in Successes :
            /\ CompleteSuccess(call, resp)
            /\ resp.status = {200} /\ resp.ok
    /\ issued' = IF last'.ret
                 THEN IssuedAfter(last'.category,
                        consume(buckets[last'.category], last'.category, enabled, now).reset,
                        FALSE)
                 ELSE issued
    /\ UNCHANGED <<pub, contabo, canva, ssh>>

\* the configuration of the concurrent client: a Graph credential, the limiter on
InitConcurrent ==
    /\ Init
    /\ config \in PublishConfigs
    /\ enabled

NextConcurrent ==
    \/ \E op \in ConcurrentOps : ConcurrentStart(op)
    \/ ConcurrentAnswered
    \/ Advance /\ UNCHANGED ext

SpecConcurrent == InitConcurrent /\ [][NextConcurrent]_vars

----------------------------------------------------------------------------
(* Scheme routing: the tools with two branches (CommentsTools.createComment,      *)
(* deleteComment, listComments; ProfileTools.getProfile) and getPreferredApi      *)

\* the client operation of the tool's Graph branch and of its Private branch
GraphOp(tool) ==
    CASE tool = "createComment" -> "post"
      [] tool = "deleteComment" -> "delete"
      [] OTHER -> "get"
PrivateOp(tool) ==
    IF tool \in {"createComment", "deleteComment"} THEN "post" ELSE "get"

\* getProfile takes its Graph branch only with a business account id
GraphBranch(tool) ==
    /\ hasGraphApiAuth(tokens)
    /\ tool = "getProfile" => Truthy(config.business_account_id)

\* a dual-scheme tool up to its await: the Graph branch, else the Private branch, else
\* NO_AUTH
StartDualTool(tool) ==
    LET by == [tool |-> tool, name |-> "none", args |-> "none"]
    IN  IF GraphBranch(tool)
        THEN StartDispatch(GraphOp(tool), "graph", DefaultCategory(GraphOp(tool)), by)
        ELSE IF hasPrivateApiAuth(tokens)
        THEN StartDispatch(PrivateOp(tool), "private", DefaultCategory(PrivateOp(tool)), by)
        ELSE /\ last' = [Returned("none", "none", FALSE) EXCEPT
                            !.tool = tool, !.code = {"NO_AUTH"}, !.begun = TRUE]
             /\ UNCHANGED <<buckets, granted, clean, enabled, now, tokens, config, devices,
                            inflight, resyncs>>

\* getPreferredApi
getPreferredApi(tok) ==
    IF hasGraphApiAuth(tok) THEN "graph"
    ELSE IF hasPrivateApiAuth(tok) THEN "private"
    ELSE "graph"

CallGetPreferredApi ==
    /\ last' = [Returned("getPreferredApi", "none", TRUE) EXCEPT
                    !.api = getPreferredApi(tokens)]
    /\ UNCHANGED <<buckets, granted, clean, enabled, now, tokens, config, devices, inflight,
                   resyncs>>

NextRouting ==
    /\ \/ \E tool \in DualTools : StartDualTool(tool)
       \/ CallGetPreferredApi
       \/ \E call \in BagToSet(inflight), f \in Failures : CompleteFailure(call, f)
       \/ \E call \in BagToSet(inflight), resp \in Successes : CompleteSuccess(call, resp)
       \/ Advance
    /\ UNCHANGED ext

SpecRouting == Init /\ [][NextRouting]_vars

----------------------------------------------------------------------------
(* The Contabo server (mcps/contabo/index.js): the token cache of getAccessToken   *)
(* and contaboRequest.  A call is suspended on the auth request or on the API       *)
(* request; tokens are numbered in the order the auth endpoint issues them.         *)

\* seconds of the source in the clock steps of the model: one step for a minute
ScaleSeconds(n) == n \div 60

\* the 60 seconds that getAccessToken takes off expires_in
ExpiryMargin == ScaleSeconds(60)

\* the expires_in of an auth response: one, two or three minutes
Lifetimes == {ScaleSeconds(60), ScaleSeconds(120), ScaleSeconds(180)}

\* accessToken && tokenExpiry && Date.now() < tokenExpiry
CacheValid(c, t) ==
    /\ c.accessToken # {}
    /\ c.tokenExpiry # {} /\ The(c.tokenExpiry) # 0
    /\ t < The(c.tokenExpiry)

\* Date.now() + (data.expires_in - 60) * 1000
Expiry(t, expiresIn) == t + (expiresIn - ExpiryMargin) * 1000

\* contaboRequest begins: getAccessToken returns the cached token, and the API request
\* is sent with it, or it sends an auth request
ContaboRequest ==
    /\ BagCardinality(contabo.calls) < MaxContabo
    /\ CacheValid(contabo, now) \/ contabo.authSent < MaxAuth
    /\ IF CacheValid(contabo, now)
       THEN contabo' = [contabo EXCEPT
                !.calls = @ (+) SetToBag({[pc |-> "api", token |-> contabo.accessToken]}),
                !.event = "cached", !.token = contabo.accessToken]
       ELSE contabo' = [contabo EXCEPT
                !.calls = @ (+) SetToBag({[pc |-> "auth", token |-> {}]}),
                !.authSent = @ + 1,
                !.event = "authSent", !.token = {}]
    /\ UNCHANGED <<coreVars, pub, issued, canva, ssh>>

\* the auth endpoint answers a call with a token that lives expiresIn: the cache is
\* written, getAccessToken returns the token and the API request is sent with it
AuthGranted(call, expiresIn) ==
    /\ call \in BagToSet(contabo.calls) /\ call.pc = "auth"
    /\ contabo.minted < MaxTokens
    /\ contabo' = [contabo EXCEPT
            !.accessToken = {contabo.minted + 1},
            !.tokenExpiry = {Expiry(now, expiresIn)},
            !.minted = @ + 1,
            !.calls = (@ (-) SetToBag({call}))
                        (+) SetToBag({[pc |-> "api", token |-> {contabo.minted + 1}]}),
            !.event = "fresh", !.token = {contabo.minted + 1}]
    /\ UNCHANGED <<coreVars, pub, issued, canva, ssh>>

\* the auth request fails (the response is not ok, or fetch or response.json() rejects):
\* getAccessToken throws and contaboRequest with it
AuthFailed(call) ==
    /\ call \in BagToSet(contabo.calls) /\ call.pc = "auth"
    /\ contabo' = [contabo EXCEPT
            !.calls = @ (-) SetToBag({call}),
            !.event = "authFailed", !.token = {}]
    /\ UNCHANGED <<coreVars, pub, issued, canva, ssh>>

\* the API answers: a body, 204 (contaboRequest returns {success: true}) or not ok
\* (contaboRequest throws)
ApiAnswered(call, answer) ==
    /\ call \in BagToSet(contabo.calls) /\ call.pc = "api"
    /\ contabo' = [contabo EXCEPT
            !.calls = @ (-) SetToBag({call}),
            !.event = answer, !.token = call.token]
    /\ UNCHANGED <<coreVars, pub, issued, canva, ssh>>

NextContabo ==
    \/ ContaboRequest
    \/ \E call \in BagToSet(contabo.calls), expiresIn \in Lifetimes :
            AuthGranted(call, expiresIn)
    \/ \E call \in BagToSet(contabo.calls) : AuthFailed(call)
    \/ \E call \in BagToSet(contabo.calls), answer \in {"apiOk", "api204", "apiFailed"} :
            ApiAnswered(call, answer)
    \/ Advance /\ UNCHANGED ext

SpecContabo == Init /\ [][NextContabo]_vars

----------------------------------------------------------------------------
(* The Canva server (mcps/canva/index.js): initBrowser, closeBrowser and the      *)
(* call-tool handler.  A call runs without interruption from one resolved         *)
(* puppeteer promise to the next one it awaits.  Browsers are numbered in the     *)
(* order of their launch; the page of browser n is page n.                        *)

CanvaTools ==
    {"canva_init", "canva_login", "canva_fetch", "canva_goto", "canva_screenshot",
     "canva_close"}

\* what a tool does with the browser: closeBrowser, initBrowser, an operation on page
Program(tool) ==
    CASE tool = "canva_init" -> <<"close", "init", "use", "init", "use">>
      [] tool = "canva_login" -> <<"close", "init", "use">>
      [] tool = "canva_close" -> <<"close">>
      [] OTHER -> <<"init", "use">>

\* a call runs on through ops, with browser br and page pg, up to the next promise it
\* has to wait for: browser.close() of closeBrowser (if browser), puppeteer.launch()
\* of initBrowser (unless browser), or the operation on page, which throws a TypeError
\* when page is null; used is what that operation found in browser and page
RECURSIVE RunOps(_, _, _)
RunOps(ops, br, pg) ==
    IF ops = <<>> THEN [pc |-> "done", b |-> 0, ops |-> <<>>, used |-> {}]
    ELSE CASE Head(ops) = "close" ->
                IF br # {}
                THEN [pc |-> "closing", b |-> The(br), ops |-> Tail(ops), used |-> {}]
                ELSE RunOps(Tail(ops), br, pg)
           [] Head(ops) = "init" ->
                IF br # {} THEN RunOps(Tail(ops), br, pg)
                ELSE [pc |-> "launching", b |-> 0, ops |-> Tail(ops), used |-> {}]
           [] Head(ops) = "use" ->
                IF pg = {}
                THEN [pc |-> "failed", b |-> 0, ops |-> <<>>,
                      used |-> {[browser |-> br, page |-> pg]}]
                ELSE [pc |-> "using", b |-> The(pg), ops |-> Tail(ops),
                      used |-> {[browser |-> br, page |-> pg]}]

\* the calls after call f (none: a new call of tool) has run on through ops
CallsAfter(c, f, tool, ops) ==
    LET r == RunOps(ops, c.browser, c.page)
        rest == IF f = {} THEN c.calls ELSE c.calls (-) SetToBag(f)
    IN  [c EXCEPT
            !.calls = IF r.pc \in {"done", "failed"} THEN rest
                      ELSE rest (+) SetToBag({[tool |-> tool, pc |-> r.pc, b |-> r.b,
                                               ops |-> r.ops]}),
            !.used = IF r.used # {} THEN r.used ELSE @,
            !.event = r.pc]

\* call f ends with the error that the handler catches
Rejected(c, f) ==
    [c EXCEPT !.calls = @ (-) SetToBag({f}), !.event = "error"]

\* the handler is called for a tool and runs to its first await
CanvaCall(tool) ==
    /\ BagCardinality(canva.calls) < MaxCanva
    /\ canva' = CallsAfter(canva, {}, tool, Program(tool))
    /\ UNCHANGED <<coreVars, pub, issued, contabo, ssh>>

\* puppeteer.launch() resolves: browser is assigned and browser.newPage() awaited
Launched(f) ==
    /\ f \in BagToSet(canva.calls) /\ f.pc = "launching"
    /\ canva.launched < MaxBrowsers
    /\ canva' = [canva EXCEPT
            !.browser = {canva.launched + 1},
            !.live = @ \cup {canva.launched + 1},
            !.launched = @ + 1,
            !.calls = (@ (-) SetToBag({f}))
                        (+) SetToBag({[f EXCEPT !.pc = "newPage", !.b = canva.launched + 1]}),
            !.event = "launched"]
    /\ UNCHANGED <<coreVars, pub, issued, contabo, ssh>>

\* puppeteer.launch() rejects
LaunchFailed(f) ==
    /\ f \in BagToSet(canva.calls) /\ f.pc = "launching"
    /\ canva' = Rejected(canva, f)
    /\ UNCHANGED <<coreVars, pub, issued, contabo, ssh>>

\* browser.newPage() resolves (it rejects when the browser has been closed): page is
\* assigned and page.setViewport() awaited
PageOpened(f) ==
    /\ f \in BagToSet(canva.calls) /\ f.pc = "newPage"
    /\ canva' = IF f.b \notin canva.live THEN Rejected(canva, f)
                ELSE [canva EXCEPT
                        !.page = {f.b},
                        !.calls = (@ (-) SetToBag({f}))
                                    (+) SetToBag({[f EXCEPT !.pc = "setup"]}),
                        !.event = "page"]
    /\ UNCHANGED <<coreVars, pub, issued, contabo, ssh>>

\* page.setViewport() resolves and page.setUserAgent() is called on what page is now
ViewportSet(f) ==
    /\ f \in BagToSet(canva.calls) /\ f.pc = "setup"
    /\ canva' = IF f.b \notin canva.live THEN Rejected(canva, f)
                ELSE CallsAfter(canva, {f}, f.tool, <<"use">> \o f.ops)
    /\ UNCHANGED <<coreVars, pub, issued, contabo, ssh>>

\* browser.close() resolves: browser = null, page = null
Closed(f) ==
    /\ f \in BagToSet(canva.calls) /\ f.pc = "closing"
    /\ canva' = CallsAfter([canva EXCEPT !.live = @ \ {f.b}, !.browser = {}, !.page = {}],
                           {f}, f.tool, f.ops)
    /\ UNCHANGED <<coreVars, pub, issued, contabo, ssh>>

\* the operation on the page resolves (it rejects when the page's browser has been
\* closed)
Used(f) ==
    /\ f \in BagToSet(canva.calls) /\ f.pc = "using"
    /\ canva' = IF f.b \notin canva.live THEN Rejected(canva, f)
                ELSE CallsAfter(canva, {f}, f.tool, f.ops)
    /\ UNCHANGED <<coreVars, pub, issued, contabo, ssh>>

NextCanva ==
    \/ \E tool \in CanvaTools : CanvaCall(tool)
    \/ \E f \in BagToSet(canva.calls) : Launched(f)
    \/ \E f \in BagToSet(canva.calls) : LaunchFailed(f)
    \/ \E f \in BagToSet(canva.calls) : PageOpened(f)
    \/ \E f \in BagToSet(canva.calls) : ViewportSet(f)
    \/ \E f \in BagToSet(canva.calls) : Closed(f)
    \/ \E f \in BagToSet(canva.calls) : Used(f)

SpecCanva == Init /\ [][NextCanva]_vars

----------------------------------------------------------------------------
(* The VPS server (index.ts, vps-ssh): executeSSH and the call-tool handler.       *)
(* ssh.pc is how far the connection has come (connecting, exec: ready and the     *)
(* command sent, streaming, closed); ssh.settled is the promise: empty while       *)
(* pending, else how it was settled, by which event and with what value.           *)

\* resolve(value) or reject(value) of the promise: the first call settles it, a later
\* one has no effect
Settle(s, kind, by, value) ==
    [s EXCEPT !.settled = IF @ = {} THEN {[kind |-> kind, by |-> by, value |-> value]}
                          ELSE @,
              !.tries = @ + 1]

\* clearTimeout(timer): a timer that has not fired is cancelled, one that has fired stays
clearTimeout(timer) == IF timer = "armed" THEN "cleared" ELSE timer

\* the handler calls executeSSH: the timer is set and conn.connect() called
SshCall ==
    /\ ssh.pc = "idle" \/ ssh.response # {}
    /\ ssh.n < MaxCalls
    /\ ssh' = [SshIdle EXCEPT !.n = ssh.n + 1, !.pc = "connecting", !.timer = "armed"]
    /\ UNCHANGED <<coreVars, pub, issued, contabo, canva>>

\* 'ready': conn.exec(command, callback)
SshReady ==
    /\ ssh.pc = "connecting"
    /\ ssh' = [ssh EXCEPT !.pc = "exec"]
    /\ UNCHANGED <<coreVars, pub, issued, contabo, canva>>

\* the exec callback: with an error clearTimeout, conn.end(), reject(err); else the
\* listeners of the stream are set
SshExecCallback(err) ==
    /\ ssh.pc = "exec"
    /\ ssh' = IF err
              THEN Settle([ssh EXCEPT !.pc = "closed", !.timer = clearTimeout(@), !.ended = TRUE],
                          "rejected", "exec", "err")
              ELSE [ssh EXCEPT !.pc = "streaming"]
    /\ UNCHANGED <<coreVars, pub, issued, contabo, canva>>

\* 'data' of the stream: output += data
SshData(chunk) ==
    /\ ssh.pc = "streaming" /\ Len(ssh.output) < MaxChunks
    /\ ssh' = [ssh EXCEPT !.output = Append(@, chunk)]
    /\ UNCHANGED <<coreVars, pub, issued, contabo, canva>>

\* 'close' of the stream: clearTimeout, conn.end(), resolve({exitCode, stdout, stderr})
SshStreamClose(code) ==
    /\ ssh.pc = "streaming"
    /\ ssh' = Settle([ssh EXCEPT !.pc = "closed", !.timer = clearTimeout(@), !.ended = TRUE],
                     "resolved", "close", [exitCode |-> code, stdout |-> ssh.output])
    /\ UNCHANGED <<coreVars, pub, issued, contabo, canva>>

\* the 'error' listener without its reject
SshConnError_noReject ==
    /\ ssh.pc \in {"connecting", "exec", "streaming", "closed"}
    /\ ssh.errors < MaxErrors
    /\ ssh' = [ssh EXCEPT !.timer = clearTimeout(@), !.errors = @ + 1]
    /\ UNCHANGED <<coreVars, pub, issued, contabo, canva>>

\* 'error' of the connection, at any time of the call: clearTimeout, reject(err)
SshConnError ==
    /\ ssh.pc \in {"connecting", "exec", "streaming", "closed"}
    /\ ssh.errors < MaxErrors
    /\ ssh' = Settle([ssh EXCEPT !.timer = clearTimeout(@), !.errors = @ + 1],
                     "rejected", "error", "err")
    /\ UNCHANGED <<coreVars, pub, issued, contabo, canva>>

\* the timer fires, unless it was cleared: conn.end(), reject(new Error('Timeout...'))
SshTimeout ==
    /\ ssh.timer = "armed"
    /\ ssh' = Settle([ssh EXCEPT !.timer = "fired", !.ended = TRUE],
                     "rejected", "timeout", "Timeout: commande trop longue")
    /\ UNCHANGED <<coreVars, pub, issued, contabo, canva>>

\* the handler's await of the promise returns or throws: the response, with isError
\* set for a rejection
SshRespond ==
    /\ ssh.settled # {} /\ ssh.response = {}
    /\ ssh' = [ssh EXCEPT !.response =
                    {[isError |-> The(ssh.settled).kind = "rejected",
                      text |-> IF The(ssh.settled).kind = "rejected" THEN "Erreur: "
                               ELSE "Exit code: "]}]
    /\ UNCHANGED <<coreVars, pub, issued, contabo, canva>>

NextSSH ==
    \/ SshCall
    \/ SshReady
    \/ \E err \in BOOLEAN : SshExecCallback(err)
    \/ \E chunk \in {"o"} : SshData(chunk)
    \/ \E code \in {0, 1} : SshStreamClose(code)
    \/ SshConnError
    \/ SshTimeout
    \/ SshRespond

\* the timer of a call fires unless it is cleared, and the handler's continuation runs
\* once the promise is settled; the connection owes no event
SpecSSH ==
    /\ Init /\ [][NextSSH]_vars
    /\ WF_vars(SshTimeout) /\ WF_vars(SshRespond)

----------------------------------------------------------------------------
(* Properties of the RateLimiter, under SpecLimiter *)

\* the bucket of c has never been reset: it is the one initializeBuckets made at time 0
\* and its window has not elapsed
FirstWindow(c) ==
    /\ clean[c]
    /\ buckets[c].reset_at = Num(DEFAULT_LIMITS(c).window_seconds * 1000)
    /\ now < DEFAULT_LIMITS(c).window_seconds * 1000

\* C1: with limiting enabled and no resync, the consume calls that returned true since
\* the last window reset of a category never exceed the bucket's limit
C1_GrantedWithinLimit ==
    \A c \in RateLimitCategory :
        clean[c] => granted[c] <= buckets[c].limit.v

\* C1 witness: a bucket has granted its whole limit and the next consume was rejected
C1_Witness ==
    /\ clean["read"] /\ granted["read"] = buckets["read"].limit.v
    /\ last.op = "consume" /\ last.category = "read" /\ ~last.ret

\* C3: in the first window of a fresh, enabled limiter without resync, consume is
\* rejected only once limit calls were granted, it is never granted beyond limit, and
\* canExecute answers true exactly while fewer than limit calls were granted
C3_CapacityThenReject ==
    \A c \in RateLimitCategory :
        (FirstWindow(c) /\ enabled /\ last.category = c) =>
            /\ (last.op = "consume" /\ ~last.ret) => granted[c] = DEFAULT_LIMITS(c).limit
            /\ (last.op = "consume" /\ last.ret) => granted[c] <= DEFAULT_LIMITS(c).limit
            /\ last.op = "canExecute" => (last.ret <=> granted[c] < DEFAULT_LIMITS(c).limit)

\* C3 witness: canExecute answered false right after the limit-th granted consume
C3_Witness ==
    /\ FirstWindow("read") /\ enabled
    /\ granted["read"] = DEFAULT_LIMITS("read").limit /\ granted["read"] >= 2
    /\ last.op = "canExecute" /\ last.category = "read" /\ ~last.ret

\* C4 (as claimed): a canExecute or consume on a bucket whose reset_at has passed sees
\* remaining equal to the bucket's current limit: after canExecute remaining is limit,
\* after consume it is limit - 1
C4_RefreshToCurrentLimit ==
    [][\A c \in RateLimitCategory :
          (enabled /\ Expired(buckets[c], now) /\ last'.category = c) =>
              /\ last'.op = "canExecute" => buckets'[c].remaining = buckets'[c].limit
              /\ last'.op = "consume" => buckets'[c].remaining = JsDec(buckets'[c].limit)]_vars

\* C5 (as claimed): every bucket keeps 0 <= remaining <= limit
C5_RemainingWithinLimit ==
    \A c \in RateLimitCategory :
        JsGe(buckets[c].remaining, Num(0)) /\ JsLe(buckets[c].remaining, buckets[c].limit)

\* the number a header string of the model reports
Reported(str) ==
    CASE str = <<"0">> -> Num(0)
      [] str = <<"1">> -> Num(1)
      [] str = <<"2">> -> Num(2)
      [] str = <<"-", "1">> -> Num(0 - 1)
      [] OTHER -> NaN

\* C6: updateFromHeaders overwrites remaining, reset_at (seconds taken as ms) and limit
\* with each reported value whatever the local one was, and keeps every other field
C6_ResyncOverwrites ==
    [][\A c \in RateLimitCategory :
          (last'.op = "updateFromHeaders" /\ last'.category = c) =>
              LET h == last'.headers
                  said(f) == f # {} /\ f # {<<>>}
              IN  /\ buckets'[c].remaining =
                        IF said(h.remaining) THEN Reported(The(h.remaining))
                        ELSE buckets[c].remaining
                  /\ buckets'[c].reset_at =
                        IF said(h.reset) THEN JsTimes(Reported(The(h.reset)), 1000)
                        ELSE buckets[c].reset_at
                  /\ buckets'[c].limit =
                        IF said(h.limit) THEN Reported(The(h.limit))
                        ELSE buckets[c].limit
                  /\ buckets'[c].window_seconds = buckets[c].window_seconds]_vars

\* C6 witness: a resync reported remaining 2 alone on a spent bucket of limit 1
C6_Witness ==
    /\ last.op = "updateFromHeaders" /\ last.category = "content_publish"
    /\ last.headers = [remaining |-> {<<"2">>}, reset |-> {}, limit |-> {}]
    /\ buckets["content_publish"].remaining = Num(2)
    /\ buckets["content_publish"].limit = Num(1)

\* C7: right after construction every bucket is full and canExecute answers true
C7_FreshBucketsFull ==
    last.op = "new" =>
        \A c \in RateLimitCategory :
            /\ buckets[c].remaining = buckets[c].limit
            /\ JsGt(buckets[c].limit, Num(0))
            /\ canExecute(buckets[c], c, enabled, now).ret

\* C7 witness: the enabled limiter as constructed
C7_Witness ==
    /\ last.op = "new" /\ enabled
    /\ \A c \in RateLimitCategory : buckets[c].remaining = Num(DEFAULT_LIMITS(c).limit)

\* C19: while the limiter is disabled canExecute answers true for every category
\* whatever the bucket holds, a canExecute or consume call returns true and changes no
\* bucket, and setEnabled changes no bucket
C19_DisabledMode ==
    [][/\ ~enabled =>
            /\ \A c \in RateLimitCategory : canExecute(buckets[c], c, enabled, now).ret
            /\ last'.op \in {"canExecute", "consume"} => last'.ret /\ buckets' = buckets
       /\ last'.op = "setEnabled" => buckets' = buckets]_vars

\* C19 witness: a consume was granted by the disabled limiter on a bucket that a resync
\* had left without quota
C19_Witness ==
    /\ ~enabled /\ last.op = "consume" /\ last.ret
    /\ JsLe(buckets[last.category].remaining, Num(0))

\* C20 (as claimed): an enabled consume on a bucket with remaining 0 whose window has
\* not elapsed returns false and changes no field of the bucket; every other enabled
\* consume returns true with remaining one less than the (lazily refreshed) bucket had
C20_ConsumeFrame ==
    [][\A c \in RateLimitCategory :
          (enabled /\ last'.op = "consume" /\ last'.category = c) =>
              LET b == IF Expired(buckets[c], now) THEN resetBucket(buckets[c], c, now)
                       ELSE buckets[c]
              IN  IF buckets[c].remaining = Num(0) /\ ~Expired(buckets[c], now)
                  THEN ~last'.ret /\ buckets'[c] = buckets[c]
                  ELSE /\ last'.ret
                       /\ ~b.remaining.nan
                       /\ buckets'[c] = [b EXCEPT !.remaining = Num(b.remaining.v - 1)]]_vars

\* C20 on the buckets that no resync has written
ConsumeFrameClean ==
    [][\A c \in RateLimitCategory :
          (enabled /\ clean[c] /\ last'.op = "consume" /\ last'.category = c) =>
              LET b == IF Expired(buckets[c], now) THEN resetBucket(buckets[c], c, now)
                       ELSE buckets[c]
              IN  IF buckets[c].remaining = Num(0) /\ ~Expired(buckets[c], now)
                  THEN ~last'.ret /\ buckets'[c] = buckets[c]
                  ELSE /\ last'.ret
                       /\ buckets'[c] = [b EXCEPT !.remaining = Num(b.remaining.v - 1)]]_vars

\* C26: buckets are independent: canExecute, consume (each with its lazy window reset)
\* and updateFromHeaders on one category leave the bucket of every other category as it
\* was, and canExecute on a bucket whose window has not elapsed changes no bucket
C26_BucketsIndependent ==
    [][\A c \in RateLimitCategory :
          (last'.op \in {"canExecute", "consume", "updateFromHeaders"}
                /\ last'.category = c) =>
              /\ \A d \in RateLimitCategory \ {c} : buckets'[d] = buckets[d]
              /\ (last'.op = "canExecute" /\ ~Expired(buckets[c], now)) =>
                    buckets' = buckets]_vars

\* C26 witness: canExecute has just refreshed the read bucket, whose window had elapsed,
\* next to a content_publish bucket that is used and whose window has elapsed too
C26_Witness ==
    /\ enabled /\ last.op = "canExecute" /\ last.category = "read"
    /\ buckets["read"].reset_at
            = Num(now + DEFAULT_LIMITS("read").window_seconds * 1000)
    /\ now > 0
    /\ buckets["content_publish"].remaining
            = Num(DEFAULT_LIMITS("content_publish").limit - 1)
    /\ Expired(buckets["content_publish"], now)

----------------------------------------------------------------------------
(* Properties of InstagramAuth, under SpecAuth *)

DevicePure ==
    \A p, q \in devices : p.secret = q.secret => p.id = q.id

\* C16 (as claimed): the X-IG-Device-ID of the Private API headers is the same for the
\* same session id, also in another instance, and differs for two different non-empty
\* session ids
C16_DeviceIdBySecret ==
    \A p, q \in devices : p.secret = q.secret <=> p.id = q.id

\* the step was updateGraphApiToken: the Graph set is exactly what was supplied, the
\* Private set is the one before, a token without expiry never counts as expired, and
\* the headers built next carry the new token (the builder throws for an empty one)
GraphUpdateReplaces ==
    last'.op = "updateGraphApiToken" =>
        LET u == The(last'.update)
        IN  /\ tokens'.graph_api = {[access_token |-> u.secret, expires_at |-> u.expiresAt,
                                     token_type |-> "bearer"]}
            /\ tokens'.private_api = tokens.private_api
            /\ u.expiresAt = {} =>
                    \A k \in 0..MaxNow : ~isGraphApiTokenExpired(tokens', k * 1000)
            /\ IF u.secret = <<>> THEN getGraphApiHeaders(tokens').threw
               ELSE /\ ~getGraphApiHeaders(tokens').threw
                    /\ getGraphApiHeaders(tokens').fields.Authorization
                            = <<"Bearer ">> \o u.secret

\* the step was updatePrivateApiSession: likewise for the Private set
PrivateUpdateReplaces ==
    last'.op = "updatePrivateApiSession" =>
        LET u == The(last'.update)
        IN  /\ tokens'.private_api = {[session_id |-> u.secret, csrf_token |-> u.csrfToken,
                                       user_id |-> u.userId]}
            /\ tokens'.graph_api = tokens.graph_api
            /\ IF u.secret = <<>> THEN getPrivateApiHeaders(tokens').threw
               ELSE /\ ~getPrivateApiHeaders(tokens').threw
                    /\ getPrivateApiHeaders(tokens').fields.Cookie
                            = <<"sessionid=">> \o u.secret

\* C24: a credential update replaces the whole set of its scheme: a field that the
\* update does not supply is cleared, the other scheme's set is unchanged, and the next
\* headers request uses the new secret
C24_UpdateReplacesSet ==
    [][GraphUpdateReplaces /\ PrivateUpdateReplaces]_vars

\* C24 witness: a Graph set that had an expiry was updated without one while a Private
\* set existed; the expiry is gone
C24_Witness ==
    /\ last.op = "updateGraphApiToken" /\ The(last.update).had
    /\ The(last.update).expiresAt = {} /\ The(last.update).secret = <<"B", "B">>
    /\ The(tokens.graph_api).expires_at = {}
    /\ tokens.private_api # {}

----------------------------------------------------------------------------
(* Properties of InstagramClient, under Spec *)

\* the step began a dispatch operation of the client (asked directly or by a tool)
BeganDispatch ==
    last'.begun /\ last'.op \in DispatchOps

\* what canExecute answers at the start of the call that the step began
GateAtStart ==
    canExecute(buckets[last'.category], last'.category, enabled, now)

\* the step issued no request and left every quota as the gate left it
NoRequestNoQuota ==
    /\ last'.sent = 0 /\ ~last'.awaiting /\ inflight' = inflight
    /\ buckets' = [buckets EXCEPT ![last'.category] = GateAtStart.bucket]

\* C2: a get, post, delete or uploadMedia that finds canExecute(category) false at its
\* start returns a failure with code RATE_LIMIT_LOCAL, issues no network request and
\* changes no bucket and no credential
C2_GateRejectsLocally ==
    [][(BeganDispatch /\ ~GateAtStart.ret) =>
            /\ ~last'.ret /\ last'.code = {"RATE_LIMIT_LOCAL"}
            /\ last'.sent = 0 /\ ~last'.awaiting /\ inflight' = inflight
            /\ buckets' = buckets /\ tokens' = tokens]_vars

\* C2 witness: an uploadMedia was rejected locally on the spent content_publish bucket
C2_Witness ==
    /\ last.begun /\ last.op = "uploadMedia" /\ ~last.ret
    /\ last.code = {"RATE_LIMIT_LOCAL"} /\ last.sent = 0
    /\ enabled /\ buckets["content_publish"].remaining = Num(0)
    /\ inflight = EmptyBag

\* the error code the specification names CredentialMissing
CredentialMissing == "CREDENTIAL_MISSING"

\* C9 (as claimed): a get, post, delete or uploadMedia that passes the quota check while
\* the credential scheme it selected is unavailable returns a failure whose error code
\* is CredentialMissing, issues no network request and consumes no quota
C9_CredentialMissingCode ==
    [][(BeganDispatch /\ GateAtStart.ret /\ HeadersFor(last'.api, tokens).threw) =>
            /\ ~last'.ret /\ last'.code = {CredentialMissing}
            /\ NoRequestNoQuota]_vars

\* only the token-bearer (Graph) credential is configured
GraphOnly ==
    hasGraphApiAuth(tokens) /\ ~hasPrivateApiAuth(tokens)

\* with only the Graph credential, likeMedia, deleteReel and pinComment return
\* NOT_SUPPORTED, issue no request and touch no bucket
ToolsNotSupported ==
    [][(GraphOnly /\ last'.begun /\ last'.tool \in PrivateTools) =>
            /\ ~last'.ret /\ last'.code = {"NOT_SUPPORTED"}
            /\ last'.sent = 0 /\ ~last'.awaiting /\ inflight' = inflight
            /\ buckets' = buckets]_vars

\* C10 (as claimed): with only the Graph credential, a tool that needs the Private API
\* returns NOT_SUPPORTED, and a dispatch asked directly with api 'private' that passes
\* the quota check returns CredentialMissing; neither issues a request nor consumes quota
C10_PrivateWithoutSession ==
    [][GraphOnly =>
        /\ (last'.begun /\ last'.tool \in PrivateTools) =>
                /\ ~last'.ret /\ last'.code = {"NOT_SUPPORTED"}
                /\ last'.sent = 0 /\ ~last'.awaiting /\ inflight' = inflight
                /\ buckets' = buckets
        /\ (BeganDispatch /\ last'.tool = "none" /\ last'.api = "private"
                /\ GateAtStart.ret) =>
                /\ ~last'.ret /\ last'.code = {CredentialMissing}
                /\ NoRequestNoQuota]_vars

\* C11: a request answered with HTTP 429 makes the call return a failure with code
\* RATE_LIMIT_EXCEEDED whose details.retry_after is the retry-after header of the
\* response when there is one, whatever error payload the body carries
C11_RateLimitExceeded ==
    (last.op \in DispatchOps /\ last.answer # {} /\ The(last.answer).status = {429}) =>
        /\ ~last.ret /\ last.code = {"RATE_LIMIT_EXCEEDED"}
        /\ last.retry_after = The(last.answer).retry_after

\* C11 witness: a get was answered 429 with retry-after 37 and an error payload that
\* has a code of its own
C11_Witness ==
    /\ last.op = "get" /\ last.answer # {} /\ The(last.answer).status = {429}
    /\ The(last.answer).error = {[code |-> {"190"}]}
    /\ last.retry_after = {"37"} /\ last.code = {"RATE_LIMIT_EXCEEDED"}

\* the synthetic value the specification gives to a success without content
Placeholder == "{success: true}"

\* C12 (as claimed): a request answered with HTTP 204 makes the call return a success
\* whose value is the placeholder {success: true}
C12_NoContentPlaceholder ==
    (last.op \in DispatchOps /\ last.answer # {} /\ The(last.answer).status = {204}) =>
        last.ret /\ last.data = {Placeholder}

\* the step returned a call whose request the upstream answered with a success
ReturnedSuccess ==
    /\ last'.op \in DispatchOps /\ ~last'.awaiting /\ last'.answer # {}
    /\ The(last'.answer).status \in {{200}, {204}}

\* the step returned a call whose request failed
ReturnedFailure ==
    /\ last'.op \in DispatchOps /\ ~last'.awaiting /\ last'.answer # {}
    /\ The(last'.answer).status \notin {{200}, {204}}

\* C17 (as claimed): a get, post, delete or uploadMedia whose request succeeded consumes
\* from the bucket of its category and then resyncs that bucket from the quota headers
\* of the response: every reported field holds the reported value afterwards, every
\* other field what consume left
C17_ConsumeThenResync ==
    [][ReturnedSuccess =>
          LET c == last'.category
              q == The(last'.answer).quota
              b == consume(buckets[c], c, enabled, now).bucket
          IN  /\ last'.ret
              /\ buckets'[c].remaining =
                    IF q.remaining # {} THEN Reported(The(q.remaining)) ELSE b.remaining
              /\ buckets'[c].reset_at =
                    IF q.reset # {} THEN JsTimes(Reported(The(q.reset)), 1000)
                    ELSE b.reset_at
              /\ buckets'[c].limit =
                    IF q.limit # {} THEN Reported(The(q.limit)) ELSE b.limit]_vars

\* C17 for get and post alone
ConsumeThenResyncGetPost ==
    [][(ReturnedSuccess /\ last'.op \in {"get", "post"}) =>
          LET c == last'.category
              q == The(last'.answer).quota
              b == consume(buckets[c], c, enabled, now).bucket
          IN  /\ last'.ret
              /\ buckets'[c].remaining =
                    IF q.remaining # {} THEN Reported(The(q.remaining)) ELSE b.remaining
              /\ buckets'[c].reset_at =
                    IF q.reset # {} THEN JsTimes(Reported(The(q.reset)), 1000)
                    ELSE b.reset_at
              /\ buckets'[c].limit =
                    IF q.limit # {} THEN Reported(The(q.limit)) ELSE b.limit]_vars

\* C18: a get, post, delete or uploadMedia whose request failed (429, 401, 403, an
\* upstream error payload, no response at all) returns a failure and neither consumes
\* nor resyncs: every bucket is as it was
C18_FailureLeavesBuckets ==
    [][ReturnedFailure => ~last'.ret /\ buckets' = buckets]_vars

\* C18 witness: after one granted get, a second get timed out and the read bucket still
\* holds what the first one left
C18_Witness ==
    /\ last.op = "get" /\ ~last.ret /\ last.answer # {} /\ The(last.answer).status = {}
    /\ last.code = {"REQUEST_FAILED"}
    /\ enabled /\ clean["read"] /\ granted["read"] = 1
    /\ buckets["read"].remaining = Num(DEFAULT_LIMITS("read").limit - 1)

\* a dispatch is never rejected locally while the limiter is disabled
DisabledNeverLocal ==
    ~enabled => last.code # {"RATE_LIMIT_LOCAL"}

\* the upstream answered the call with an error status other than 429, 401 and 403
OtherErrorStatus ==
    /\ last.answer # {} /\ ~last.ret /\ last.op \in DispatchOps
    /\ "error" \in DOMAIN The(last.answer)
    /\ The(last.answer).status \notin {{}, {429}, {401}, {403}}

\* C21 (as claimed): an error status other than 429, 401 and 403 whose body has an error
\* payload gives a failure with code API_ERROR whose details carry the payload; without
\* a payload it gives REQUEST_FAILED whose details carry the status
C21_ApiErrorCode ==
    OtherErrorStatus =>
        IF The(last.answer).error # {}
        THEN last.code = {"API_ERROR"} /\ last.upstream = The(last.answer).error
        ELSE last.code = {"REQUEST_FAILED"} /\ last.status = The(last.answer).status

\* what does hold: the code is the payload's own code, API_ERROR only when it has none
PayloadCodeOrApiError ==
    OtherErrorStatus =>
        IF The(last.answer).error # {}
        THEN /\ last.code = {PayloadCode(The(last.answer))}
             /\ last.upstream = The(last.answer).error
        ELSE last.code = {"REQUEST_FAILED"} /\ last.status = The(last.answer).status

----------------------------------------------------------------------------
(* Properties of the call-tool handler, under SpecServer *)

\* C13 (as claimed): the response of a tool call is one text block; it has isError set
\* when the tool's outcome is a failure, returned or thrown, and never otherwise
C13_IsErrorOnEveryFailure ==
    last.response # {} =>
        /\ The(last.response).blocks = 1
        /\ The(last.response).isError <=> ~The(last.response).success

\* the error envelope the specification gives to every failure
ErrorEnvelope == [success |-> FALSE, error |-> "{code, message}"]

\* C14 (as claimed): an exception that the call-tool handler catches, an unknown tool
\* name included, is answered with the envelope of a returned failure,
\* {success: false, error: {code, message}}
C14_CaughtSameEnvelope ==
    last.caught # {} =>
        /\ last.response # {}
        /\ [success |-> The(last.response).success, error |-> The(last.response).error]
                = ErrorEnvelope

\* C15 (as claimed): a tool call whose arguments violate the tool's schema is rejected
\* before the dispatch layer is called: no request is issued and no bucket changes
C15_InvalidArgsRejected ==
    [][(last'.begun /\ last'.tool # "none" /\ last'.args \in {"invalid", "undefined"}) =>
            /\ ~last'.ret /\ last'.sent = 0 /\ ~last'.awaiting
            /\ inflight' = inflight /\ buckets' = buckets]_vars

----------------------------------------------------------------------------
(* Properties of the content-publishing tools, under SpecPublish *)

\* a poll loop is running: between its first status check and its return
Polling == pub.pc \in {"poll", "sleep", "woke"}

\* the loop has made no more status checks than its ceiling
ChecksWithinCeiling ==
    pub.tool # "none" => pub.checks <= maxAttempts(pub.tool)

\* the step that follows a status check: FINISHED ends the loop with true, ERROR with
\* false, and neither makes another check
PollStops ==
    (Resumed /\ pub.pc = "poll" /\ StatusCode(last) \in {"FINISHED", "ERROR"}) =>
        /\ pub'.waits = Append(pub.waits, StatusCode(last) = "FINISHED")
        /\ pub'.pc \notin {"poll", "sleep", "woke"}

\* a loop ends with false only on ERROR or after maxAttempts checks, and after
\* maxAttempts checks, the last of them neither FINISHED nor ERROR, it ends with false
PollCeiling ==
    /\ (Polling /\ Len(pub'.waits) > Len(pub.waits) /\ ~pub'.waits[Len(pub'.waits)]) =>
            \/ pub.pc = "poll" /\ StatusCode(last) = "ERROR"
            \/ pub.pc = "woke" /\ pub.checks = maxAttempts(pub.tool)
    /\ (pub.pc = "woke" /\ pub.checks = maxAttempts(pub.tool)) =>
            pub'.waits = Append(pub.waits, FALSE)

\* C22: every media-processing poll loop terminates: it makes at most maxAttempts status
\* checks, stops at the first check that reports FINISHED (true) or ERROR (false), and
\* returns false after the ceiling, also when every status check itself failed
C22_PollTerminates ==
    /\ []ChecksWithinCeiling
    /\ [][PollStops /\ PollCeiling]_vars
    /\ (Polling ~> ~Polling)

\* createReel's loop has ended with false after maxAttempts status checks and the read
\* bucket is used up
C22_Witness ==
    /\ pub.tool = "createReel" /\ pub.pc = "done" /\ pub.waits = <<FALSE>>
    /\ pub.checks = maxAttempts(pub.tool)
    /\ last.code = {"PROCESSING_ERROR"}
    /\ buckets["read"].remaining = Num(0)

\* a loop has ended with true at its first status check
PollFinishedAtOnce ==
    pub.tool = "createPost" /\ pub.waits = <<TRUE>> /\ pub.checks = 1

\* a poll loop of the call ended without FINISHED
PollFailed == \E k \in 1..Len(pub.waits) : ~pub.waits[k]

\* the media_publish request of the call is on its way to the upstream
PublishIssued == pub.pc = "publish" /\ last.awaiting

\* C23 (as claimed): in createPost, createCarousel, createStory and createReel, when the
\* poll ended without FINISHED the tool returns a failure and no media_publish request
\* is issued
C23_NoPublishAfterFailedPoll ==
    PollFailed =>
        /\ ~PublishIssued
        /\ pub.pc \notin {"publish", "permalink"}
        /\ pub.pc = "done" => ~last.ret

\* what does hold: createReel returns PROCESSING_ERROR and publishes nothing
ReelStopsOnFailedPoll ==
    (pub.tool = "createReel" /\ PollFailed) =>
        pub.pc = "done" /\ ~last.ret /\ last.code = {"PROCESSING_ERROR"}

\* createPost has published a video whose processing ended with ERROR, and returned
\* success
PublishedAfterFailedPoll ==
    /\ pub.tool = "createPost" /\ PollFailed /\ pub.pc = "done" /\ last.ret

----------------------------------------------------------------------------
(* Properties of concurrent dispatch calls, under SpecConcurrent *)

\* C25 (as claimed): with the limiter on and no resynchronisation, the requests sent
\* for a category since its window began never exceed the bucket's capacity
C25_IssuedWithinCapacity ==
    \A c \in RateLimitCategory :
        clean[c] => issued[c] <= DEFAULT_LIMITS(c).limit

\* what does hold: the calls that consumed within the window are within the capacity
ConsumedWithinCapacity ==
    \A c \in RateLimitCategory :
        clean[c] => granted[c] <= DEFAULT_LIMITS(c).limit

\* three get calls are suspended at once behind a read bucket of capacity 2
GateOvertaken ==
    /\ BagCardinality(inflight) = 3 /\ issued["read"] = 3
    /\ buckets["read"].remaining = Num(DEFAULT_LIMITS("read").limit)

----------------------------------------------------------------------------
(* Properties of the scheme routing, under SpecRouting *)

\* how the tools named route the call that began in the state's last step, and what
\* follows a failed Graph call: Graph whenever the Graph credential is available,
\* Private only without it, NO_AUTH and no request when neither is available, and no
\* request in flight after the Graph call failed
RoutedBySchemes(tools) ==
    /\ (last.begun /\ last.tool \in tools) =>
        /\ hasGraphApiAuth(tokens) => last.api = "graph"
        /\ last.api = "private" => ~hasGraphApiAuth(tokens) /\ hasPrivateApiAuth(tokens)
        /\ ~isAuthenticated(tokens) =>
                last.code = {"NO_AUTH"} /\ last.sent = 0 /\ inflight = EmptyBag
    /\ (last.tool \in tools /\ ~last.begun /\ last.api = "graph" /\ ~last.ret) =>
        last.sent = 1 /\ inflight = EmptyBag

\* getPreferredApi: graph whenever the Graph credential is available, private only
\* when it is not and the Private one is
PreferredByCredentials ==
    last.op = "getPreferredApi" =>
        /\ hasGraphApiAuth(tokens) => last.api = "graph"
        /\ last.api = "private" <=> ~hasGraphApiAuth(tokens) /\ hasPrivateApiAuth(tokens)

\* C27 (as claimed): createComment, deleteComment, listComments, getProfile and
\* getPreferredApi use the Graph target whenever the Graph credential is available, the
\* Private target only when it is not and the Private credential is, return NO_AUTH
\* without a request when neither is, and a failed Graph call starts no Private call
C27_SchemeRouting ==
    RoutedBySchemes(DualTools) /\ PreferredByCredentials

\* what does hold: the same without getProfile
CommentsRouting ==
    RoutedBySchemes(DualTools \ {"getProfile"}) /\ PreferredByCredentials

\* a failed Graph call of createComment returned while a session id was configured
GraphFailedNoFallback ==
    /\ last.tool = "createComment" /\ ~last.begun /\ last.api = "graph" /\ ~last.ret
    /\ hasPrivateApiAuth(tokens) /\ last.answer # {}

----------------------------------------------------------------------------
(* Properties of the Contabo token cache, under SpecContabo *)

\* the step in which getAccessToken returned the token contabo'.token
TokenReturned == contabo' # contabo /\ contabo'.event \in {"cached", "fresh"}

\* the step in which getAccessToken returned the cached token
CachedReturned == contabo' # contabo /\ contabo'.event = "cached"

\* the step in which the auth request of a call failed
AuthRequestFailed == contabo' # contabo /\ contabo'.event = "authFailed"

\* C28 (as claimed): getAccessToken never returns a token at or after the expiry
\* recorded for it; it returns the cached token, without an auth request, only while
\* now < tokenExpiry; a failed auth request leaves accessToken and tokenExpiry unchanged
C28_TokenBeforeExpiry ==
    [][/\ TokenReturned =>
            /\ contabo'.token = contabo'.accessToken
            /\ now < The(contabo'.tokenExpiry)
       /\ CachedReturned =>
            /\ now < The(contabo.tokenExpiry)
            /\ contabo'.authSent = contabo.authSent
            /\ contabo'.accessToken = contabo.accessToken
       /\ AuthRequestFailed =>
            /\ contabo'.accessToken = contabo.accessToken
            /\ contabo'.tokenExpiry = contabo.tokenExpiry]_vars

\* what does hold: the same where the token returned is the cached one
CachedBeforeExpiry ==
    [][/\ TokenReturned => contabo'.token = contabo'.accessToken
       /\ CachedReturned => now < The(contabo'.tokenExpiry)
       /\ CachedReturned =>
            /\ now < The(contabo.tokenExpiry)
            /\ contabo'.authSent = contabo.authSent
            /\ contabo'.accessToken = contabo.accessToken
       /\ AuthRequestFailed =>
            /\ contabo'.accessToken = contabo.accessToken
            /\ contabo'.tokenExpiry = contabo.tokenExpiry]_vars

\* a second token was fetched by a call that began while the first call was suspended,
\* and a failed auth request left the cache as it was
ContaboRaced ==
    /\ contabo.event = "authFailed" /\ contabo.minted = 2 /\ contabo.authSent = 3
    /\ contabo.accessToken = {2}

----------------------------------------------------------------------------
(* Properties of the Canva server, under SpecCanva *)

\* C29 (as claimed): at most one launched browser is live, every launched browser is
\* the one the browser variable refers to or has been closed, and a tool that uses page
\* while browser is non-null finds page non-null
C29_OneBrowser ==
    /\ Cardinality(canva.live) <= 1
    /\ canva.live \subseteq canva.browser
    /\ \A u \in canva.used : u.browser # {} => u.page # {}

\* two browsers are live and the variable refers to the second
BrowserLeaked ==
    canva.live = {1, 2} /\ canva.browser = {2}

\* a tool found page null behind a browser that another call had just launched
PageNullBehindBrowser ==
    canva.event = "failed" /\ canva.used = {[browser |-> {1}, page |-> {}]}

----------------------------------------------------------------------------
(* Properties of executeSSH, under SpecSSH *)

\* how the promise of the call is settled: resolved by the stream's close with the exit
\* code and the output collected, or rejected by the exec error, a connection error or
\* the timeout; and the timer is cleared unless the timeout settled it
SettledAsClaimed ==
    \A p \in ssh.settled :
        /\ p.kind = "resolved" <=> p.by = "close"
        /\ p.by = "close" => p.value.stdout = ssh.output /\ p.value.exitCode \in {0, 1}
        /\ p.kind = "rejected" <=> p.by \in {"exec", "error", "timeout"}
        /\ p.by # "timeout" => ssh.timer = "cleared"
        /\ p.by = "timeout" => ssh.timer = "fired"

\* within a call the settled promise stays as it is
FirstSettlementFinal ==
    (ssh.settled # {} /\ ssh'.n = ssh.n) => ssh'.settled = ssh.settled

\* C30: every executeSSH call eventually settles, exactly once, whatever the order of
\* ready, exec callback, stream close, connection error and timeout: resolved with the
\* exit code and the output on stream close, rejected on exec error, connection error
\* or timeout; the first settlement is final, and the timer is cleared after every
\* settlement but the timeout's
C30_SettlesOnce ==
    /\ []SettledAsClaimed
    /\ [][FirstSettlementFinal]_vars
    /\ \A k \in 1..MaxCalls : (ssh.n = k) ~> (ssh.n = k /\ ssh.settled # {})

\* C30 witness: the stream closed with exit code 1 and one chunk of output, and a
\* connection error came afterwards: the promise is still the resolved one
C30_Witness ==
    /\ ssh.settled = {[kind |-> "resolved", by |-> "close",
                       value |-> [exitCode |-> 1, stdout |-> <<"o">>]]}
    /\ ssh.tries = 2 /\ ssh.errors = 1 /\ ssh.timer = "cleared"
    /\ ssh.response # {}

====
